---- MODULE Spec2Model ----
(***************************************************************************)
(* Model of the ULD sizing and fit-validation tools of                     *)
(* src/src/agents/uld_utils.py, of the runtime entrypoint invoke of        *)
(* src/src/agents/uld_load_planner_runtime.py with its clients, and of     *)
(* the scripts src/deploy_uld_agents.py and src/undeploy_uld_agents.py.    *)
(*                                                                         *)
(* Four specifications.  Spec: one call at a time, each call as a whole,   *)
(* over the wide input sets.  StepSpec: several invocations of the tools   *)
(* followed statement by statement, interleaved.  SeqSpec: one caller      *)
(* making call after call, statement by statement, with the returned       *)
(* calls kept in order.  ScriptSpec: one run of a deployment script,       *)
(* block by block, over every outcome of the calls it makes;               *)
(* ScriptFairSpec is ScriptSpec with the script running to its end.        *)
(*                                                                         *)
(* Each tool is a pure function of its arguments; it is modelled as an     *)
(* operator of the same name that computes the returned text as a record   *)
(* of the parts the f-strings put into it (the marker that starts the      *)
(* text, the numbers, the breakdown lines).  A call that ends by an        *)
(* exception leaving the function is the record [kind |-> "raise"].        *)
(*                                                                         *)
(* Numbers.  Weights and centimetres are whole numbers.  Volumes in cubic  *)
(* metres are held in tenths of a cubic metre (3.5 m3 is 35), so that the  *)
(* table volumes 3.5, 7.2, 5.5 and 11.6 are exact; quotients and           *)
(* percentages are exact fractions [num, den].  Python computes them in    *)
(* binary floating point: the rounding error of a double is not modelled   *)
(* (for every input drawn below the texts of the model and of the code     *)
(* show the same figures).                                                 *)
(*                                                                         *)
(* Strings.  A uld_type argument is a sequence of one-character strings,   *)
(* so that str.upper() is computed character by character.                 *)
(***************************************************************************)
EXTENDS Integers, Sequences, FiniteSets, TLC

VARIABLES
    op,     \* the tool being called: "none" when no call is in progress
    args,   \* the arguments of the call, by parameter name
    out,    \* what the call gave its caller: a text or value, or a raised
            \* exception
    frames, \* the invocations followed statement by statement: for each, the
            \* function, its arguments, where it stands, what it returned
    locals, \* the local variables of each invocation's frame
    history,\* the calls that returned to a caller making one call at a time,
            \* in order, with their results
    script  \* the run of a deployment script: where it stands, its local
            \* variables, the calls it made and how each ended, what it
            \* printed as its summary, its exit status

vars == <<op, args, out, frames, locals, history, script>>

---------------------------------------------------------------------------
(* Python helpers *)

LowerCase == <<"a","b","c","d","e","f","g","h","i","j","k","l","m",
               "n","o","p","q","r","s","t","u","v","w","x","y","z">>
UpperCase == <<"A","B","C","D","E","F","G","H","I","J","K","L","M",
               "N","O","P","Q","R","S","T","U","V","W","X","Y","Z">>

\* A str.upper() that leaves every character as it is.
upper_char_unchanged(c) == c

\* str.upper() of one character: a lower-case letter becomes its capital,
\* every other character stays.
upper_char(c) ==
    IF \E i \in 1..Len(LowerCase) : LowerCase[i] = c
    THEN UpperCase[CHOOSE i \in 1..Len(LowerCase) : LowerCase[i] = c]
    ELSE c

\* str.upper() of a string held as a sequence of characters.
str_upper(s) == [i \in 1..Len(s) |-> upper_char(s[i])]

\* The string a sequence of characters spells.
RECURSIVE Str(_)
Str(s) == IF s = <<>> THEN "" ELSE Head(s) \o Str(Tail(s))

\* Keys of a dict literal, held as a sequence of records with a code field,
\* in declaration order (a dict iterates in insertion order).
Keys(table) == {table[i].code : i \in 1..Len(table)}

\* table[key], for a key of the dict.
Lookup(table, key) == table[CHOOSE i \in 1..Len(table) : table[i].code = key]

\* A fraction num/den, den > 0, kept unreduced.
Frac(n, d) == [num |-> n, den |-> d]

\* Exact comparison of two fractions by their continued fractions, without
\* forming the cross products (which leave TLC's 32-bit integers).
\* -1, 0, 1 as a is less than, equal to, greater than b.
RECURSIVE FracCmp(_, _)
FracCmp(a, b) ==
    LET qa == a.num \div a.den
        qb == b.num \div b.den
        ra == a.num % a.den
        rb == b.num % b.den
    IN  IF qa < qb THEN -1
        ELSE IF qa > qb THEN 1
        ELSE IF ra = 0 /\ rb = 0 THEN 0
        ELSE IF ra = 0 THEN -1
        ELSE IF rb = 0 THEN 1
        ELSE FracCmp(Frac(b.den, rb), Frac(a.den, ra))

---------------------------------------------------------------------------
(* The cargo_items argument *)

\* The cargo_items string is held by what the JSON decoder makes of it: a
\* text that is not JSON, or the decoded value.  A decoded value is
\* [t, v]: a number, null, a string (its characters), a list (its elements)
\* or an object (its keys in order, and the function from keys to values).
JNum(n)  == [t |-> "num",  v |-> n]
JNull    == [t |-> "null", v |-> 0]
JStr(s)  == [t |-> "str",  v |-> s]
JList(s) == [t |-> "list", v |-> s]
JObj(keys, fields) == [t |-> "obj", v |-> [keys |-> keys, fields |-> fields]]
NotJson  == [t |-> "undecodable", v |-> 0]

\* json.loads (lines 32, 72): the value, or JSONDecodeError.
json_loads(text) ==
    IF text.t = "undecodable"
    THEN [kind |-> "raise", exception |-> "JSONDecodeError"]
    ELSE [kind |-> "value", value |-> text]

\* What "for item in items" iterates over (lines 37, 77): the elements of a
\* list, the keys of an object, the characters of a string; a number or
\* null is not iterable.
py_iter(items) ==
    CASE items.t = "list" -> [kind |-> "value", value |-> items.v]
      [] items.t = "obj"  ->
            [kind |-> "value",
             value |-> [i \in 1..Len(items.v.keys) |-> JStr(items.v.keys[i])]]
      [] items.t = "str"  ->
            [kind |-> "value",
             value |-> [i \in 1..Len(items.v) |-> JStr(<<items.v[i]>>)]]
      [] OTHER            -> [kind |-> "raise", exception |-> "TypeError"]

\* item.get(key, default) (lines 38, 39, 78 to 81): only an object has get.
item_get(item, key, default) ==
    IF item.t # "obj" THEN [kind |-> "raise", exception |-> "AttributeError"]
    ELSE IF key \in DOMAIN item.v.fields
         THEN [kind |-> "value", value |-> item.v.fields[key]]
         ELSE [kind |-> "value", value |-> JNum(default)]

\* The divisor of lines 85 and 94: cubic centimetres in a cubic metre.
CM3_PER_M3 == 1000000

\* n/d formatted with two decimals (":.2f"), in hundredths, for a d that is
\* a multiple of 100: n/d rounded to the nearest hundredth, a tie going to
\* the even one.
format_2f(n, d) ==
    LET unit == d \div 100
        q == n \div unit
        r == n % unit
    IN  IF 2 * r > unit THEN q + 1
        ELSE IF 2 * r < unit THEN q
        ELSE IF q % 2 = 0 THEN q ELSE q + 1

---------------------------------------------------------------------------
(* calculate_total_weight *)

\* weight * quantity and total_weight += item_total (lines 40, 41) of the
\* values got from the item: numbers multiply; with a value that is not a
\* number the product or the sum raises TypeError.
weight_item_total(weight, quantity) ==
    IF weight.t = "num" /\ quantity.t = "num"
    THEN [kind |-> "value", value |-> weight.v * quantity.v]
    ELSE [kind |-> "raise", exception |-> "TypeError"]

\* Line 41 assigning instead of adding.
add_to_total_assigned(total, item_total) == item_total

\* Line 41.
add_to_total(total, item_total) == total + item_total

\* The loop of lines 37 to 43 from element i on.
RECURSIVE weight_loop(_, _, _, _)
weight_loop(items, i, total_weight, breakdown) ==
    IF i > Len(items)
    THEN [kind |-> "done", total_weight |-> total_weight, breakdown |-> breakdown]
    ELSE
    LET weight == item_get(items[i], "weight", 0)
        quantity == item_get(items[i], "quantity", 1)
    IN  IF weight.kind = "raise" THEN weight
        ELSE IF quantity.kind = "raise" THEN quantity
        ELSE
    LET item_total == weight_item_total(weight.value, quantity.value)
    IN  IF item_total.kind = "raise" THEN item_total
        ELSE weight_loop(items, i + 1,
                 add_to_total(total_weight, item_total.value),
                 Append(breakdown, [quantity |-> quantity.value.v,
                                    weight |-> weight.value.v,
                                    item_total |-> item_total.value]))

\* Line 49: every exception of the body becomes the returned text.
weight_error_text(e) ==
    [kind |-> "text", marker |-> "Error calculating weight",
     exception |-> e.exception]

calculate_total_weight(cargo_items) ==
    LET loaded == json_loads(cargo_items)
    IN  IF loaded.kind = "raise" THEN weight_error_text(loaded)
        ELSE
    LET items == py_iter(loaded.value)
    IN  IF items.kind = "raise" THEN weight_error_text(items)
        ELSE
    LET looped == weight_loop(items.value, 1, 0, <<>>)
    IN  IF looped.kind = "raise" THEN weight_error_text(looped)
        ELSE [kind |-> "text", marker |-> "Total Weight",
              total_weight |-> looped.total_weight,
              breakdown |-> looped.breakdown]

---------------------------------------------------------------------------
(* calculate_total_volume *)

\* length * width * height (line 84) of the values got from the item.
item_volume_cm3_of(length, width, height) ==
    IF length.t = "num" /\ width.t = "num" /\ height.t = "num"
    THEN [kind |-> "value", value |-> length.v * width.v * height.v]
    ELSE [kind |-> "raise", exception |-> "TypeError"]

\* Line 88 without the quantity.
add_to_volume_once(total_volume_cm3, item_volume_cm3, quantity) ==
    total_volume_cm3 + item_volume_cm3

\* Line 88.
add_to_volume(total_volume_cm3, item_volume_cm3, quantity) ==
    total_volume_cm3 + item_volume_cm3 * quantity

\* The loop of lines 77 to 92 from element i on.
RECURSIVE volume_loop(_, _, _, _)
volume_loop(items, i, total_volume_cm3, breakdown) ==
    IF i > Len(items)
    THEN [kind |-> "done", total_volume_cm3 |-> total_volume_cm3,
          breakdown |-> breakdown]
    ELSE
    LET length == item_get(items[i], "length", 0)
        width == item_get(items[i], "width", 0)
        height == item_get(items[i], "height", 0)
        quantity == item_get(items[i], "quantity", 1)
    IN  IF length.kind = "raise" THEN length
        ELSE IF width.kind = "raise" THEN width
        ELSE IF height.kind = "raise" THEN height
        ELSE IF quantity.kind = "raise" THEN quantity
        ELSE
    LET item_volume_cm3 == item_volume_cm3_of(length.value, width.value, height.value)
    IN  IF item_volume_cm3.kind = "raise" THEN item_volume_cm3
        ELSE IF quantity.value.t # "num"
        THEN [kind |-> "raise", exception |-> "TypeError"]
        ELSE volume_loop(items, i + 1,
                 add_to_volume(total_volume_cm3, item_volume_cm3.value,
                               quantity.value.v),
                 Append(breakdown,
                    [quantity |-> quantity.value.v,
                     dims |-> <<length.value.v, width.value.v, height.value.v>>,
                     total_item_volume |->
                        format_2f(item_volume_cm3.value * quantity.value.v,
                                  CM3_PER_M3)]))

\* Line 100.
volume_error_text(e) ==
    [kind |-> "text", marker |-> "Error calculating volume",
     exception |-> e.exception]

calculate_total_volume(cargo_items) ==
    LET loaded == json_loads(cargo_items)
    IN  IF loaded.kind = "raise" THEN volume_error_text(loaded)
        ELSE
    LET items == py_iter(loaded.value)
    IN  IF items.kind = "raise" THEN volume_error_text(items)
        ELSE
    LET looped == volume_loop(items.value, 1, 0, <<>>)
    IN  IF looped.kind = "raise" THEN volume_error_text(looped)
        ELSE [kind |-> "text", marker |-> "Total Volume",
              total_volume_cm3 |-> looped.total_volume_cm3,
              total_volume_m3 |-> format_2f(looped.total_volume_cm3, CM3_PER_M3),
              breakdown |-> looped.breakdown]

---------------------------------------------------------------------------
(* validate_weight_constraints *)

\* The text every function with a uld_type parameter returns for a code
\* that is not a key of its table.
VALID_TYPES_TEXT == "AKE, AAA, AKN, AAP, AMA"

\* The table with the max_net of AKE not its max_gross less its tare.
validate_uld_specs_net_off == <<
    [code |-> "AKE", name |-> "LD3", max_gross |-> 1588, tare |-> 85,  max_net |-> 1500],
    [code |-> "AAA", name |-> "LD7", max_gross |-> 4626, tare |-> 120, max_net |-> 4506],
    [code |-> "AKN", name |-> "LD8", max_gross |-> 2449, tare |-> 105, max_net |-> 2344],
    [code |-> "AAP", name |-> "LD6", max_gross |-> 3176, tare |-> 115, max_net |-> 3061],
    [code |-> "AMA", name |-> "LD9", max_gross |-> 6804, tare |-> 180, max_net |-> 6624] >>

\* The dict literal of lines 125 to 129.
validate_uld_specs == <<
    [code |-> "AKE", name |-> "LD3", max_gross |-> 1588, tare |-> 85,  max_net |-> 1503],
    [code |-> "AAA", name |-> "LD7", max_gross |-> 4626, tare |-> 120, max_net |-> 4506],
    [code |-> "AKN", name |-> "LD8", max_gross |-> 2449, tare |-> 105, max_net |-> 2344],
    [code |-> "AAP", name |-> "LD6", max_gross |-> 3176, tare |-> 115, max_net |-> 3061],
    [code |-> "AMA", name |-> "LD9", max_gross |-> 6804, tare |-> 180, max_net |-> 6624] >>

\* The f-string of line 135.
validate_unknown_type_text(uld_type) ==
    [kind |-> "text", marker |-> "ERROR", reason |-> "Unknown ULD type",
     uld_type |-> Str(uld_type), valid_types |-> VALID_TYPES_TEXT]

\* Line 148 with a strict comparison.
within_capacity_strict(total_weight, max_capacity) == total_weight < max_capacity

\* Line 148: the comparison that decides VALID.
within_capacity(total_weight, max_capacity) == total_weight <= max_capacity

\* Line 160 with the operands exchanged.
excess_weight_exchanged(total_weight, max_capacity) == max_capacity - total_weight

\* Lines 149 and 160.
remaining_capacity(total_weight, max_capacity) == max_capacity - total_weight

excess_weight(total_weight, max_capacity) == total_weight - max_capacity

validate_weight_constraints(uld_type, cargo_weight, include_tare) ==
    LET uld_type_upper == Str(str_upper(uld_type))
    IN  IF uld_type_upper \notin Keys(validate_uld_specs)
        THEN validate_unknown_type_text(uld_type)
        ELSE
    LET spec == Lookup(validate_uld_specs, uld_type_upper)
        total_weight  == IF include_tare THEN cargo_weight + spec.tare ELSE cargo_weight
        max_capacity  == IF include_tare THEN spec.max_gross ELSE spec.max_net
        capacity_type == IF include_tare THEN "max gross weight" ELSE "max net weight"
    IN  IF within_capacity(total_weight, max_capacity)
        THEN [kind |-> "text", marker |-> "VALID",
              cargo_weight |-> cargo_weight, uld_type_upper |-> uld_type_upper,
              name |-> spec.name, capacity_type |-> capacity_type,
              max_capacity |-> max_capacity, total_weight |-> total_weight,
              remaining |-> remaining_capacity(total_weight, max_capacity),
              utilization |-> Frac(total_weight * 100, max_capacity)]
        ELSE [kind |-> "text", marker |-> "INVALID",
              cargo_weight |-> cargo_weight, uld_type_upper |-> uld_type_upper,
              name |-> spec.name, capacity_type |-> capacity_type,
              max_capacity |-> max_capacity, total_weight |-> total_weight,
              excess |-> excess_weight(total_weight, max_capacity),
              recommendation |-> "Use larger ULD type or split cargo"]

---------------------------------------------------------------------------
(* calculate_uld_requirements *)

\* The table with the gross weights entered as max_net.
requirements_uld_specs_gross == <<
    [code |-> "AKE", name |-> "LD3", max_net |-> 1588, volume |-> 35],
    [code |-> "AAA", name |-> "LD7", max_net |-> 4626, volume |-> 72],
    [code |-> "AKN", name |-> "LD8", max_net |-> 2449, volume |-> 55],
    [code |-> "AAP", name |-> "LD6", max_net |-> 3176, volume |-> 72],
    [code |-> "AMA", name |-> "LD9", max_net |-> 6804, volume |-> 116] >>

\* The dict literal of lines 191 to 197, volumes in tenths of a cubic metre.
requirements_uld_specs == <<
    [code |-> "AKE", name |-> "LD3", max_net |-> 1503, volume |-> 35],
    [code |-> "AAA", name |-> "LD7", max_net |-> 4506, volume |-> 72],
    [code |-> "AKN", name |-> "LD8", max_net |-> 2344, volume |-> 55],
    [code |-> "AAP", name |-> "LD6", max_net |-> 3061, volume |-> 72],
    [code |-> "AMA", name |-> "LD9", max_net |-> 6624, volume |-> 116] >>

\* The default of the uld_type parameter (line 171).
DEFAULT_ULD_TYPE == <<"A","K","E">>

\* Line 202 naming the upper-cased code instead of the code as given.
requirements_unknown_type_text_upper(uld_type) ==
    [kind |-> "text", marker |-> "ERROR", reason |-> "Unknown ULD type",
     uld_type |-> Str(str_upper(uld_type)), valid_types |-> VALID_TYPES_TEXT]

\* The f-string of line 202.
requirements_unknown_type_text(uld_type) ==
    [kind |-> "text", marker |-> "ERROR", reason |-> "Unknown ULD type",
     uld_type |-> Str(uld_type), valid_types |-> VALID_TYPES_TEXT]

\* int(x) + (1 if x % 1 > 0 else 0) of a non-negative quotient x = n/d
\* (lines 208, 212, 335, 338): int() drops the fractional part, x % 1 is it.
rounded_count(x) ==
    (x.num \div x.den) + (IF x.num % x.den > 0 THEN 1 ELSE 0)

\* Line 216.
limiting_factor_of(ulds_by_weight_rounded, ulds_by_volume_rounded) ==
    IF ulds_by_weight_rounded > ulds_by_volume_rounded THEN "weight" ELSE "volume"

\* The smaller of the two counts taken instead of the greater.
py_max_smaller(a, b) == IF a >= b THEN b ELSE a

\* Python's max of two numbers (lines 215, 340).
py_max(a, b) == IF a >= b THEN a ELSE b

calculate_uld_requirements(total_weight, total_volume, uld_type) ==
    LET uld_type_upper == Str(str_upper(uld_type))
    IN  IF uld_type_upper \notin Keys(requirements_uld_specs)
        THEN requirements_unknown_type_text(uld_type)
        ELSE
    LET spec == Lookup(requirements_uld_specs, uld_type_upper)
        ulds_by_weight == Frac(total_weight, spec.max_net)
        ulds_by_weight_rounded == rounded_count(ulds_by_weight)
        ulds_by_volume == Frac(total_volume, spec.volume)
        ulds_by_volume_rounded == rounded_count(ulds_by_volume)
        ulds_required == py_max(ulds_by_weight_rounded, ulds_by_volume_rounded)
        limiting_factor ==
            limiting_factor_of(ulds_by_weight_rounded, ulds_by_volume_rounded)
    IN  \* Lines 222, 223 divide by ulds_required * capacity while the text
        \* is built; no handler encloses them.
        IF ulds_required * spec.max_net = 0 \/ ulds_required * spec.volume = 0
        THEN [kind |-> "raise", exception |-> "ZeroDivisionError"]
        ELSE [kind |-> "text", marker |-> "ULDs Required",
              ulds_required |-> ulds_required, uld_type_upper |-> uld_type_upper,
              name |-> spec.name, limiting_factor |-> limiting_factor,
              ulds_by_weight |-> ulds_by_weight, ulds_by_volume |-> ulds_by_volume,
              weight_utilization |->
                  Frac(total_weight * 100, ulds_required * spec.max_net),
              volume_utilization |->
                  Frac(total_volume * 100, ulds_required * spec.volume)]

---------------------------------------------------------------------------
(* check_dimensional_fit *)

\* The table with AKN shorter inside than AKE.
uld_dimensions_short_AKN == <<
    [code |-> "AKE", name |-> "LD3", length |-> 150, width |-> 147, height |-> 157],
    [code |-> "AAA", name |-> "LD7", length |-> 311, width |-> 147, height |-> 157],
    [code |-> "AKN", name |-> "LD8", length |-> 138, width |-> 147, height |-> 157],
    [code |-> "AAP", name |-> "LD6", length |-> 311, width |-> 147, height |-> 157],
    [code |-> "AMA", name |-> "LD9", length |-> 311, width |-> 238, height |-> 157] >>

\* The table without its last entry.
uld_dimensions_without_AMA == <<
    [code |-> "AKE", name |-> "LD3", length |-> 150, width |-> 147, height |-> 157],
    [code |-> "AAA", name |-> "LD7", length |-> 311, width |-> 147, height |-> 157],
    [code |-> "AKN", name |-> "LD8", length |-> 238, width |-> 147, height |-> 157],
    [code |-> "AAP", name |-> "LD6", length |-> 311, width |-> 147, height |-> 157] >>

\* The dict literal of lines 250 to 256.
uld_dimensions == <<
    [code |-> "AKE", name |-> "LD3", length |-> 150, width |-> 147, height |-> 157],
    [code |-> "AAA", name |-> "LD7", length |-> 311, width |-> 147, height |-> 157],
    [code |-> "AKN", name |-> "LD8", length |-> 238, width |-> 147, height |-> 157],
    [code |-> "AAP", name |-> "LD6", length |-> 311, width |-> 147, height |-> 157],
    [code |-> "AMA", name |-> "LD9", length |-> 311, width |-> 238, height |-> 157] >>

\* The overhang allowed on top, in cm (line 268).
HEIGHT_OVERHANG == 5

\* The f-string of line 261.
fit_unknown_type_text(uld_type) ==
    [kind |-> "text", marker |-> "ERROR", reason |-> "Unknown ULD type",
     uld_type |-> Str(uld_type), valid_types |-> VALID_TYPES_TEXT]

\* Line 268 without the overhang.
height_fits_no_overhang(cargo_height, dim) == cargo_height <= dim.height

\* Lines 266 to 268.
length_fits(cargo_length, dim) == cargo_length <= dim.length

\* Line 267 with the cargo turned by a quarter: its width along the length.
width_fits_rotated(cargo_width, dim) == cargo_width <= dim.length

width_fits(cargo_width, dim) == cargo_width <= dim.width

height_fits(cargo_height, dim) == cargo_height <= dim.height + HEIGHT_OVERHANG

\* One line of the DOES NOT FIT text (lines 282 to 295).
fit_line(fits, cargo, limit) ==
    IF fits THEN [ok |-> TRUE, cargo |-> cargo, limit |-> limit, excess |-> 0]
    ELSE [ok |-> FALSE, cargo |-> cargo, limit |-> limit, excess |-> cargo - limit]

check_dimensional_fit(cargo_length, cargo_width, cargo_height, uld_type) ==
    LET uld_type_upper == Str(str_upper(uld_type))
    IN  IF uld_type_upper \notin Keys(uld_dimensions)
        THEN fit_unknown_type_text(uld_type)
        ELSE
    LET dim == Lookup(uld_dimensions, uld_type_upper)
        all_fit == /\ length_fits(cargo_length, dim)
                   /\ width_fits(cargo_width, dim)
                   /\ height_fits(cargo_height, dim)
    IN  IF all_fit
        THEN [kind |-> "text", marker |-> "FITS",
              cargo |-> <<cargo_length, cargo_width, cargo_height>>,
              uld_type_upper |-> uld_type_upper, name |-> dim.name,
              internal |-> <<dim.length, dim.width, dim.height>>,
              length_clearance |-> dim.length - cargo_length,
              width_clearance |-> dim.width - cargo_width,
              height_clearance |-> (dim.height + HEIGHT_OVERHANG) - cargo_height]
        ELSE [kind |-> "text", marker |-> "DOES NOT FIT",
              cargo |-> <<cargo_length, cargo_width, cargo_height>>,
              uld_type_upper |-> uld_type_upper, name |-> dim.name,
              internal |-> <<dim.length, dim.width, dim.height>>,
              length |-> fit_line(length_fits(cargo_length, dim),
                                  cargo_length, dim.length),
              width  |-> fit_line(width_fits(cargo_width, dim),
                                  cargo_width, dim.width),
              height |-> fit_line(height_fits(cargo_height, dim),
                                  cargo_height, dim.height + HEIGHT_OVERHANG),
              recommendation |-> "Use larger ULD type or reorient cargo"]

---------------------------------------------------------------------------
(* compare_uld_options *)

\* The table with the volume of AAP mistyped (2.7 for 7.2).
compare_uld_specs_mistyped == <<
    [code |-> "AKE", name |-> "LD3", max_net |-> 1503, volume |-> 35],
    [code |-> "AAA", name |-> "LD7", max_net |-> 4506, volume |-> 72],
    [code |-> "AKN", name |-> "LD8", max_net |-> 2344, volume |-> 55],
    [code |-> "AAP", name |-> "LD6", max_net |-> 3061, volume |-> 27],
    [code |-> "AMA", name |-> "LD9", max_net |-> 6624, volume |-> 116] >>

\* The dict literal of lines 322 to 328, volumes in tenths of a cubic metre.
compare_uld_specs == <<
    [code |-> "AKE", name |-> "LD3", max_net |-> 1503, volume |-> 35],
    [code |-> "AAA", name |-> "LD7", max_net |-> 4506, volume |-> 72],
    [code |-> "AKN", name |-> "LD8", max_net |-> 2344, volume |-> 55],
    [code |-> "AAP", name |-> "LD6", max_net |-> 3061, volume |-> 72],
    [code |-> "AMA", name |-> "LD9", max_net |-> 6624, volume |-> 116] >>

RECURSIVE GCD(_, _)
GCD(a, b) == IF b = 0 THEN a ELSE GCD(b, a % b)

\* a + b over the least common denominator.
FracAdd(a, b) ==
    LET l == (a.den \div GCD(a.den, b.den)) * b.den
    IN  Frac(a.num * (l \div a.den) + b.num * (l \div b.den), l)

\* a / 2
FracHalf(a) == Frac(a.num, 2 * a.den)

\* Line 345.
avg_util_of(weight_util, volume_util) == FracHalf(FracAdd(weight_util, volume_util))

\* The body of the loop of lines 332 to 354 for one entry of the table: the
\* option appended, or the exception of the divisions of lines 343, 344.
compare_option(spec, cargo_weight, cargo_volume) ==
    LET ulds_by_weight_rounded == rounded_count(Frac(cargo_weight, spec.max_net))
        ulds_by_volume_rounded == rounded_count(Frac(cargo_volume, spec.volume))
        ulds_required == py_max(ulds_by_weight_rounded, ulds_by_volume_rounded)
    IN  IF ulds_required * spec.max_net = 0 \/ ulds_required * spec.volume = 0
        THEN [kind |-> "raise", exception |-> "ZeroDivisionError"]
        ELSE
    LET weight_util == Frac(cargo_weight * 100, ulds_required * spec.max_net)
        volume_util == Frac(cargo_volume * 100, ulds_required * spec.volume)
    IN  [kind |-> "option", type |-> spec.code, name |-> spec.name,
         quantity |-> ulds_required, weight_util |-> weight_util,
         volume_util |-> volume_util,
         avg_util |-> avg_util_of(weight_util, volume_util)]

\* The loop of lines 332 to 354 from entry i on, options being the list so
\* far: the full list, or the exception that ended the loop.
RECURSIVE compare_loop(_, _, _, _)
compare_loop(i, options, cargo_weight, cargo_volume) ==
    IF i > Len(compare_uld_specs) THEN [kind |-> "done", options |-> options]
    ELSE LET o == compare_option(compare_uld_specs[i], cargo_weight, cargo_volume)
         IN  IF o.kind = "raise" THEN o
             ELSE compare_loop(i + 1, Append(options, o), cargo_weight, cargo_volume)

\* Whether option a goes before option b in the sorted list when a came
\* before b in the unsorted one: the sort is descending and stable, so a
\* stays ahead unless b's key is strictly greater.  First the unstable
\* variant, where a later option with an equal key overtakes.
stays_ahead_strict(a, b) == FracCmp(a.avg_util, b.avg_util) > 0

stays_ahead(a, b) == FracCmp(a.avg_util, b.avg_util) >= 0

\* o put into the sorted list s, behind every option that stays ahead of it.
RECURSIVE insert_sorted(_, _)
insert_sorted(s, o) ==
    IF s = <<>> THEN <<o>>
    ELSE IF stays_ahead(Head(s), o) THEN <<Head(s)>> \o insert_sorted(Tail(s), o)
    ELSE <<o>> \o s

\* options.sort(key=avg_util, reverse=True) (line 357): the options taken
\* in list order and inserted one by one.
RECURSIVE sort_options(_)
sort_options(options) ==
    IF options = <<>> THEN <<>>
    ELSE insert_sorted(sort_options(SubSeq(options, 1, Len(options) - 1)),
                       options[Len(options)])

compare_uld_options(cargo_weight, cargo_volume) ==
    LET looped == compare_loop(1, <<>>, cargo_weight, cargo_volume)
    IN  IF looped.kind = "raise" THEN looped
        ELSE LET options == sort_options(looped.options)
             IN  [kind |-> "text", marker |-> "ULD Options Comparison",
                  options |-> options,
                  best |-> options[1]]

---------------------------------------------------------------------------
(* invoke, the entrypoint of uld_load_planner_runtime.py *)

\* payload.get(key, default): the value under the key, None (JNull) being
\* the default of a get without one.
payload_get(payload, key, default) ==
    IF key \in DOMAIN payload THEN payload[key] ELSE default

\* Truth value of a payload value: None, "" and 0 are false.
truthy(x) ==
    CASE x.t = "null" -> FALSE
      [] x.t = "str"  -> x.v # <<>>
      [] x.t = "num"  -> x.v # 0
      [] OTHER        -> TRUE

\* "a or b" taking the second operand whatever the first.
py_or_second(a, b) == b

\* "a or b": a when it is true, else b.
py_or(a, b) == IF truthy(a) THEN a ELSE b

DEFAULT_SESSION == JStr(<<"default-session">>)

\* What create_load_planner_orchestrator(query) does, as far as invoke can
\* tell (lines 106 to 120): it returns an object with a message, or one
\* without (then str(result) is taken), or it raises.
OrchestratorOutcomes == {"message", "plain", "raise"}

\* invoke(payload, context); context is not used.  The record holds what
\* the caller gets and the queries the orchestrator was called with.
invoke(payload, outcome) ==
    LET user_message == py_or(payload_get(payload, "inputText", JNull),
                              payload_get(payload, "prompt", JNull))
    IN  IF ~truthy(user_message)
        THEN [kind |-> "raise", exception |-> "Exception",
              message |-> "Payload must include 'inputText' or 'prompt' parameter",
              orchestrator_queries |-> <<>>]
        ELSE
    LET session_id == payload_get(payload, "session_id", DEFAULT_SESSION)
    IN  IF outcome = "raise"
        THEN [kind |-> "raise", exception |-> "orchestrator",
              message |-> "raised by create_load_planner_orchestrator",
              orchestrator_queries |-> <<user_message>>]
        ELSE [kind |-> "return",
              value |-> [result |-> [query |-> user_message,
                                     taken_from |-> IF outcome = "message"
                                                    THEN "result.message"
                                                    ELSE "str(result)"],
                         session_id |-> session_id],
              orchestrator_queries |-> <<user_message>>]

---------------------------------------------------------------------------
(* The clients of the deployed agent *)

\* The payload invoke_agentcore_agent builds (test_deployed_uld_agents.py
\* lines 88 to 93): the query, and the session under "sessionId" when one
\* was given.
client_payload(query, session_id) ==
    ("inputText" :> query)
    @@ (IF truthy(session_id) THEN "sessionId" :> session_id ELSE <<>>)

\* The payload of a case of the integration test
\* (test_uld_utils_integration.py lines 94 to 97).
integration_payload(query, session) ==
    ("inputText" :> query) @@ ("sessionId" :> session)

\* json.dumps by the client and the decoding before the entrypoint is
\* called: the keys and the texts under them arrive as they were sent.
delivered(payload) == [k \in DOMAIN payload |-> payload[k]]

---------------------------------------------------------------------------
(* Inputs *)

\* How many containers' worth of cargo the drawn weights and volumes
\* reach: the capacities' multiples up to this count, and their neighbours.
MaxCount == 3

\* The longest cargo_items list drawn.
MaxItems == 2

AKE == <<"A","K","E">>
AAA == <<"A","A","A">>
AKN == <<"A","K","N">>
AAP == <<"A","A","P">>
AMA == <<"A","M","A">>

KnownTypeInputs == {AKE, AAA, AKN, AAP, AMA}

\* Every spelling of a code in capital and small letters.
RECURSIVE CaseSpellings(_)
CaseSpellings(code) ==
    IF code = <<>> THEN {<<>>}
    ELSE LET heads == {Head(code)}
                      \cup {LowerCase[i] : i \in {k \in 1..Len(UpperCase) :
                                                     UpperCase[k] = Head(code)}}
         IN  {<<c>> \o rest : c \in heads, rest \in CaseSpellings(Tail(code))}

UldTypeInputs ==
    KnownTypeInputs \cup
    UNION {CaseSpellings(code) : code \in KnownTypeInputs} \cup
    { <<"a","k","e">>, <<"A","k","e">>, <<"a","m","A">>,
      <<"I","N","V","A","L","I","D">>, <<"x","y","z">>, <<"A","K">>,
      <<"A","K","E"," ">>, <<>> }

Rows(table) == {table[i] : i \in 1..Len(table)}

\* Cargo weights for the validator: around every capacity of the table,
\* with and without the tare, and the spec's examples.
ValidatorWeights ==
    {-1, 0, 1, 1400, 1500, 2000}
    \cup UNION { {s.max_net + d, s.max_gross + d, s.max_gross - s.tare + d} :
                 s \in Rows(validate_uld_specs), d \in {-1, 0, 1} }
    \cup { s.max_net * k : s \in Rows(validate_uld_specs), k \in 1..MaxCount }

\* Total weights (kg) and volumes (tenths of a cubic metre) for the sizing
\* and comparison functions: nothing, the spec's example, and every multiple
\* of a capacity up to MaxCount with its two neighbours.
SizingWeights ==
    {0, 1, 2500}
    \cup { s.max_net * k + d :
           s \in Rows(requirements_uld_specs), k \in 1..MaxCount, d \in {-1, 0, 1} }

SizingVolumes ==
    {0, 1, 90}
    \cup { s.volume * k + d :
           s \in Rows(requirements_uld_specs), k \in 1..MaxCount, d \in {-1, 0, 1} }

\* Cargo dimensions (cm): the spec's examples and every internal dimension,
\* with and without the overhang, with its two neighbours.
FitLengths ==
    {0, 120, 147, 200}
    \cup { r.length + d : r \in Rows(uld_dimensions), d \in {-1, 0, 1} }

FitWidths ==
    {0, 100, 150, 200}
    \cup { r.width + d : r \in Rows(uld_dimensions), d \in {-1, 0, 1} }

FitHeights ==
    {0, 150, 200}
    \cup { r.height + d : r \in Rows(uld_dimensions), d \in {-1, 0, 1} }
    \cup { r.height + HEIGHT_OVERHANG + d : r \in Rows(uld_dimensions), d \in {-1, 0, 1} }

\* A key that the item does not have.
Absent == [t |-> "absent", v |-> 0]

\* The one-key object key: x, or the empty object when x is Absent.
OptField(key, x) == IF x.t = "absent" THEN <<>> ELSE key :> x

\* Sequences over S of length at most n.
SeqUpTo(S, n) == UNION { [1..k -> S] : k \in 0..n }

\* Items for calculate_total_weight: objects with or without each key, a
\* weight that is no number, and an element that is no object.
WeightItems ==
    { JObj(<<>>, OptField("weight", w) @@ OptField("quantity", q)) :
        w \in {Absent, JNum(0), JNum(300), JNum(500), JNull},
        q \in {Absent, JNum(1), JNum(3), JNum(5)} }

WeightElements == WeightItems \cup {JNum(7)}

\* Items for calculate_total_volume.
VolumeItems ==
    { JObj(<<>>, OptField("length", l) @@ OptField("width", w)
                 @@ OptField("height", h) @@ OptField("quantity", q)) :
        l \in {Absent, JNum(1), JNum(120)},
        w \in {Absent, JNum(100)},
        h \in {Absent, JNum(80)},
        q \in {Absent, JNum(3), JNum(5)} }

VolumeElements == VolumeItems \cup {JNull}

\* Texts that decode to no list, or to nothing.
OtherTexts ==
    { NotJson, JNum(5), JNull, JStr(<<>>), JStr(<<"a","b">>),
      JObj(<<>>, <<>>), JObj(<<<<"w">>>>, "w" :> JNum(1)) }

WeightTexts == { JList(s) : s \in SeqUpTo(WeightElements, MaxItems) } \cup OtherTexts
VolumeTexts == { JList(s) : s \in SeqUpTo(VolumeElements, MaxItems) } \cup OtherTexts

\* Payloads of invoke: each of the three keys absent, None, empty or a
\* text.
QueryValues == {Absent, JNull, JStr(<<>>), JStr(<<"plan A">>), JStr(<<"plan B">>)}
SessionValues == {Absent, JNull, JStr(<<"session-123">>)}

Payloads ==
    { OptField("inputText", i) @@ OptField("prompt", p) @@ OptField("session_id", s) :
        i \in QueryValues, p \in QueryValues, s \in SessionValues }

\* What a client passes: a query, empty or not, and a session or none
\* (None is the default of the parameter).
ClientQueries == {JStr(<<>>), JStr(<<"plan A">>)}
ClientSessions == {JNull, JStr(<<>>), JStr(<<"session-123">>)}
IntegrationSessions ==
    {JStr(<<"test-session-utils-1">>), JStr(<<"test-session-utils-6">>)}

---------------------------------------------------------------------------
(* Invocations and their frames *)

\* How many invocations run at the same time.
MaxInvocations == 2

\* How many returned calls the history keeps.
MaxHistory == 3

Invocations == 1..MaxInvocations

\* An invocation slot with no call in it.
IdleFrame == [pc |-> "idle", fn |-> "none", args |-> <<>>, result |-> <<>>]

\* A frame before any call: the table the function builds (uld_specs,
\* uld_dimensions), the sequence its loop iterates over and the position in
\* it, and the two accumulators (total_weight or total_volume_cm3, and
\* breakdown or options).
NoLocals == [table |-> <<>>, items |-> <<>>, k |-> 0, total |-> 0, list |-> <<>>]

\* No deployment script is running.
IdleScript ==
    [ name |-> "none", pc |-> "idle", agent_id |-> JNull, agent_ids |-> <<>>,
      undeploy_success |-> TRUE, log |-> <<>>, printed |-> "none",
      exit |-> "none" ]

---------------------------------------------------------------------------
(* The calls *)

Init ==
    /\ op = "none"
    /\ args = <<>>
    /\ out = <<>>
    /\ frames = [i \in Invocations |-> IdleFrame]
    /\ locals = [i \in Invocations |-> NoLocals]
    /\ history = <<>>
    /\ script = IdleScript

Call_calculate_total_weight ==
    /\ op = "none"
    /\ UNCHANGED <<frames, locals, history, script>>
    /\ \E cargo_items \in WeightTexts :
        /\ op' = "calculate_total_weight"
        /\ args' = [cargo_items |-> cargo_items]
        /\ out' = calculate_total_weight(cargo_items)

Call_calculate_total_volume ==
    /\ op = "none"
    /\ UNCHANGED <<frames, locals, history, script>>
    /\ \E cargo_items \in VolumeTexts :
        /\ op' = "calculate_total_volume"
        /\ args' = [cargo_items |-> cargo_items]
        /\ out' = calculate_total_volume(cargo_items)

\* include_tare defaults to True when the caller leaves it out (line 104).
Call_validate_weight_constraints ==
    /\ op = "none"
    /\ UNCHANGED <<frames, locals, history, script>>
    /\ \E uld_type \in UldTypeInputs, cargo_weight \in ValidatorWeights,
          tare_arg \in {"True", "False", "omitted"} :
        LET include_tare == tare_arg # "False"
        IN  /\ op' = "validate_weight_constraints"
            /\ args' = [uld_type |-> uld_type, cargo_weight |-> cargo_weight,
                        include_tare |-> include_tare]
            /\ out' = validate_weight_constraints(uld_type, cargo_weight, include_tare)

\* uld_type defaults to "AKE" when the caller leaves it out (line 171).
Call_calculate_uld_requirements ==
    /\ op = "none"
    /\ UNCHANGED <<frames, locals, history, script>>
    /\ \E total_weight \in SizingWeights, total_volume \in SizingVolumes,
          type_arg \in UldTypeInputs, type_given \in BOOLEAN :
        LET uld_type == IF type_given THEN type_arg ELSE DEFAULT_ULD_TYPE
        IN  /\ op' = "calculate_uld_requirements"
            /\ args' = [total_weight |-> total_weight, total_volume |-> total_volume,
                        uld_type |-> uld_type]
            /\ out' = calculate_uld_requirements(total_weight, total_volume, uld_type)

Call_check_dimensional_fit ==
    /\ op = "none"
    /\ UNCHANGED <<frames, locals, history, script>>
    /\ \E cargo_length \in FitLengths, cargo_width \in FitWidths,
          cargo_height \in FitHeights, uld_type \in UldTypeInputs :
        /\ op' = "check_dimensional_fit"
        /\ args' = [cargo_length |-> cargo_length, cargo_width |-> cargo_width,
                    cargo_height |-> cargo_height, uld_type |-> uld_type]
        /\ out' = check_dimensional_fit(cargo_length, cargo_width, cargo_height,
                                        uld_type)

Call_compare_uld_options ==
    /\ op = "none"
    /\ UNCHANGED <<frames, locals, history, script>>
    /\ \E cargo_weight \in SizingWeights, cargo_volume \in SizingVolumes :
        /\ op' = "compare_uld_options"
        /\ args' = [cargo_weight |-> cargo_weight, cargo_volume |-> cargo_volume]
        /\ out' = compare_uld_options(cargo_weight, cargo_volume)

Call_invoke ==
    /\ op = "none"
    /\ UNCHANGED <<frames, locals, history, script>>
    /\ \E payload \in Payloads, outcome \in OrchestratorOutcomes :
        /\ op' = "invoke"
        /\ args' = [payload |-> payload]
        /\ out' = invoke(payload, outcome)

\* A client invokes the deployed agent: the entrypoint runs on the payload
\* the client sent.
Call_invoke_agentcore_agent ==
    /\ op = "none"
    /\ UNCHANGED <<frames, locals, history, script>>
    /\ \E query \in ClientQueries, session_id \in ClientSessions,
          outcome \in OrchestratorOutcomes :
        /\ op' = "invoke_agentcore_agent"
        /\ args' = [query |-> query, session_id |-> session_id]
        /\ out' = invoke(delivered(client_payload(query, session_id)), outcome)

\* A case of the integration test invokes the deployed agent.
Call_integration_test_case ==
    /\ op = "none"
    /\ UNCHANGED <<frames, locals, history, script>>
    /\ \E query \in ClientQueries, session_id \in IntegrationSessions,
          outcome \in OrchestratorOutcomes :
        /\ op' = "integration_test_case"
        /\ args' = [query |-> query, session_id |-> session_id]
        /\ out' = invoke(delivered(integration_payload(query, session_id)), outcome)

\* The caller takes the result; the next call starts from nothing.
Return ==
    /\ op # "none"
    /\ UNCHANGED <<frames, locals, history, script>>
    /\ op' = "none"
    /\ args' = <<>>
    /\ out' = <<>>

Next ==
    \/ Call_calculate_total_weight
    \/ Call_calculate_total_volume
    \/ Call_validate_weight_constraints
    \/ Call_calculate_uld_requirements
    \/ Call_check_dimensional_fit
    \/ Call_compare_uld_options
    \/ Call_invoke
    \/ Call_invoke_agentcore_agent
    \/ Call_integration_test_case
    \/ Return

Spec == Init /\ [][Next]_vars

---------------------------------------------------------------------------
(* The six tools statement by statement                                    *)
(*                                                                         *)
(* An invocation enters its function (the statements before the loop), runs *)
(* its loop one iteration at a time, sorts (compare_uld_options), builds    *)
(* the text and returns.  Every name a function assigns is a local of the   *)
(* call: the module has no module-level data.  A slot keeps the last values *)
(* of its locals until the next entry assigns them anew.                    *)

\* The frame that holds the locals of invocation i: its own.  First the
\* variant where every invocation uses one frame.
frame_shared(i) == 1

frame_of(i) == i

\* The dict literal a function builds on entry (lines 124 to 130, 191 to
\* 197, 250 to 256, 322 to 328); the two aggregation functions build none.
TableOf(fn) ==
    CASE fn = "validate_weight_constraints" -> validate_uld_specs
      [] fn = "calculate_uld_requirements"  -> requirements_uld_specs
      [] fn = "check_dimensional_fit"       -> uld_dimensions
      [] fn = "compare_uld_options"         -> compare_uld_specs
      [] OTHER                              -> <<>>

\* The accumulators with the values the frame held before the entry.
kept_accumulators(previous) == [total |-> previous.total, list |-> previous.list]

\* total_weight = 0, breakdown = [] (lines 34, 35); total_volume_cm3 = 0,
\* breakdown = [] (lines 74, 75); options = [] (line 330).
fresh_accumulators(previous) == [total |-> 0, list |-> <<>>]

\* The text of the except clause of the function (lines 49, 100).
error_text(fn, e) ==
    IF fn = "calculate_total_weight" THEN weight_error_text(e)
    ELSE volume_error_text(e)

\* The statements from the entry of the function to its loop: where the
\* invocation stands after them, the result if it has returned already,
\* and the locals.  json.loads comes before the accumulators are assigned;
\* the for statement takes the iterator after them.
enter(previous, fn, call_args) ==
    LET acc == fresh_accumulators(previous)
        assigned == [table |-> TableOf(fn), items |-> <<>>, k |-> 1,
                     total |-> acc.total, list |-> acc.list]
    IN  IF fn \in {"calculate_total_weight", "calculate_total_volume"}
        THEN LET loaded == json_loads(call_args.cargo_items)
             IN  IF loaded.kind = "raise"
                 THEN [pc |-> "done", result |-> error_text(fn, loaded),
                       locals |-> previous]
                 ELSE
             LET items == py_iter(loaded.value)
             IN  IF items.kind = "raise"
                 THEN [pc |-> "done", result |-> error_text(fn, items),
                       locals |-> assigned]
                 ELSE [pc |-> "loop", result |-> <<>>,
                       locals |-> [assigned EXCEPT !.items = items.value]]
        ELSE IF fn = "compare_uld_options"
        THEN [pc |-> "loop", result |-> <<>>, locals |-> assigned]
        ELSE [pc |-> "body", result |-> <<>>, locals |-> assigned]

\* The sequence the loop of the function iterates over.
loop_sequence(fn, l) == IF fn = "compare_uld_options" THEN l.table ELSE l.items

\* One iteration of the loop (lines 37 to 43, 77 to 92, 332 to 354) on the
\* element at position l.k: the locals after it, or the result when the
\* iteration raised (the error text of the except clause in the aggregation
\* functions, the exception itself in compare_uld_options).
iterate_once(fn, call_args, l) ==
    CASE fn = "calculate_total_weight" ->
            LET r == weight_loop(SubSeq(l.items, 1, l.k), l.k, l.total, l.list)
            IN  IF r.kind = "raise"
                THEN [raised |-> TRUE, result |-> weight_error_text(r), locals |-> l]
                ELSE [raised |-> FALSE, result |-> <<>>,
                      locals |-> [l EXCEPT !.k = @ + 1, !.total = r.total_weight,
                                           !.list = r.breakdown]]
      [] fn = "calculate_total_volume" ->
            LET r == volume_loop(SubSeq(l.items, 1, l.k), l.k, l.total, l.list)
            IN  IF r.kind = "raise"
                THEN [raised |-> TRUE, result |-> volume_error_text(r), locals |-> l]
                ELSE [raised |-> FALSE, result |-> <<>>,
                      locals |-> [l EXCEPT !.k = @ + 1, !.total = r.total_volume_cm3,
                                           !.list = r.breakdown]]
      [] fn = "compare_uld_options" ->
            LET spec == l.table[l.k]
                o == IF {"max_net", "volume"} \subseteq DOMAIN spec
                     THEN compare_option(spec, call_args.cargo_weight, call_args.cargo_volume)
                     ELSE [kind |-> "raise", exception |-> "KeyError"]
            IN  IF o.kind = "raise"
                THEN [raised |-> TRUE, result |-> o, locals |-> l]
                ELSE [raised |-> FALSE, result |-> <<>>,
                      locals |-> [l EXCEPT !.k = @ + 1, !.list = Append(@, o)]]

\* The sort that also puts the rows of the table in the order of the
\* sorted options.
sort_with_table(l) ==
    LET sorted == sort_options(l.list)
    IN  [l EXCEPT !.list = sorted,
                  !.table = [j \in 1..Len(sorted) |->
                                Lookup(l.table, sorted[j].type)]]

\* options.sort(...) (line 357): the list of the call is sorted in place.
sort_in_place(l) == [l EXCEPT !.list = sort_options(l.list)]

\* The statements after the loop: the text built from the locals and
\* returned (lines 45, 46; 94 to 97; 359 to 371), options[0] raising
\* IndexError on an empty list; for the three functions without a loop, the
\* whole body after the table.
finish(fn, call_args, l) ==
    CASE fn = "calculate_total_weight" ->
            [kind |-> "text", marker |-> "Total Weight",
             total_weight |-> l.total, breakdown |-> l.list]
      [] fn = "calculate_total_volume" ->
            [kind |-> "text", marker |-> "Total Volume",
             total_volume_cm3 |-> l.total,
             total_volume_m3 |-> format_2f(l.total, CM3_PER_M3),
             breakdown |-> l.list]
      [] fn = "compare_uld_options" ->
            IF l.list = <<>> THEN [kind |-> "raise", exception |-> "IndexError"]
            ELSE [kind |-> "text", marker |-> "ULD Options Comparison",
                  options |-> l.list, best |-> l.list[1]]
      [] fn = "validate_weight_constraints" ->
            validate_weight_constraints(call_args.uld_type, call_args.cargo_weight,
                                        call_args.include_tare)
      [] fn = "calculate_uld_requirements" ->
            calculate_uld_requirements(call_args.total_weight, call_args.total_volume,
                                       call_args.uld_type)
      [] fn = "check_dimensional_fit" ->
            check_dimensional_fit(call_args.cargo_length, call_args.cargo_width,
                                  call_args.cargo_height, call_args.uld_type)

\* What the function returns for the arguments when it is called alone.
Alone(fn, call_args) ==
    CASE fn = "calculate_total_weight" -> calculate_total_weight(call_args.cargo_items)
      [] fn = "calculate_total_volume" -> calculate_total_volume(call_args.cargo_items)
      [] fn = "compare_uld_options" ->
            compare_uld_options(call_args.cargo_weight, call_args.cargo_volume)
      [] OTHER -> finish(fn, call_args, NoLocals)

\* The cargo lists of the spec's examples, and a list with an element that
\* is no record behind a good one.
ExampleWeightItems ==
    JList(<< JObj(<<>>, "weight" :> JNum(500) @@ "quantity" :> JNum(5)),
             JObj(<<>>, "weight" :> JNum(300) @@ "quantity" :> JNum(3)) >>)

BadWeightItems ==
    JList(<< JObj(<<>>, "weight" :> JNum(500) @@ "quantity" :> JNum(5)), JNum(7) >>)

ExampleVolumeItems ==
    JList(<< JObj(<<>>, "length" :> JNum(120) @@ "width" :> JNum(100)
                        @@ "height" :> JNum(80) @@ "quantity" :> JNum(5)) >>)

\* The calls of an invocation followed statement by statement: each
\* function with a call that succeeds and, where it has one, a call that
\* ends in an error.
StepCalls ==
    { [fn |-> "calculate_total_weight", args |-> [cargo_items |-> t]] :
        t \in {ExampleWeightItems, BadWeightItems} }
    \cup { [fn |-> "calculate_total_volume", args |-> [cargo_items |-> t]] :
        t \in {ExampleVolumeItems, JNum(5)} }
    \cup { [fn |-> "compare_uld_options",
            args |-> [cargo_weight |-> c[1], cargo_volume |-> c[2]]] :
        c \in {<<0, 0>>, <<2500, 90>>} }
    \cup { [fn |-> "validate_weight_constraints",
            args |-> [uld_type |-> t, cargo_weight |-> 2000, include_tare |-> TRUE]] :
        t \in {AKE, <<"x","y","z">>} }
    \cup { [fn |-> "calculate_uld_requirements",
            args |-> [total_weight |-> 2500, total_volume |-> 90, uld_type |-> AKE]] }
    \cup { [fn |-> "check_dimensional_fit",
            args |-> [cargo_length |-> 147, cargo_width |-> 150,
                      cargo_height |-> 150, uld_type |-> AKE]] }

\* Invocation i is called with the function and the arguments of c.
Enter(i, c) ==
    /\ frames[i].pc = "idle"
    /\ LET e == enter(locals[frame_of(i)], c.fn, c.args)
       IN  /\ frames' = [frames EXCEPT ![i] = [pc |-> e.pc, fn |-> c.fn,
                                               args |-> c.args,
                                               result |-> e.result]]
           /\ locals' = [locals EXCEPT ![frame_of(i)] = e.locals]
    /\ UNCHANGED <<op, args, out, history, script>>

\* Invocation i is called.
Start(i) == \E c \in StepCalls : Enter(i, c)

\* Invocation i runs one iteration of its loop.
Iterate(i) ==
    /\ frames[i].pc = "loop"
    /\ locals[frame_of(i)].k <= Len(loop_sequence(frames[i].fn, locals[frame_of(i)]))
    /\ LET e == iterate_once(frames[i].fn, frames[i].args, locals[frame_of(i)])
       IN  /\ frames' = IF e.raised
                        THEN [frames EXCEPT ![i].pc = "done", ![i].result = e.result]
                        ELSE frames
           /\ locals' = [locals EXCEPT ![frame_of(i)] = e.locals]
    /\ UNCHANGED <<op, args, out, history, script>>

\* compare_uld_options, past its loop, sorts its options.
Sort(i) ==
    /\ frames[i].pc = "loop"
    /\ frames[i].fn = "compare_uld_options"
    /\ locals[frame_of(i)].k > Len(loop_sequence(frames[i].fn, locals[frame_of(i)]))
    /\ frames' = [frames EXCEPT ![i].pc = "sorted"]
    /\ locals' = [locals EXCEPT ![frame_of(i)] = sort_in_place(@)]
    /\ UNCHANGED <<op, args, out, history, script>>

\* Invocation i builds its text and returns.
Finish(i) ==
    /\ \/ /\ frames[i].pc = "loop"
          /\ frames[i].fn # "compare_uld_options"
          /\ locals[frame_of(i)].k
                 > Len(loop_sequence(frames[i].fn, locals[frame_of(i)]))
       \/ frames[i].pc = "sorted"
       \/ frames[i].pc = "body"
    /\ frames' = [frames EXCEPT
                    ![i].pc = "done",
                    ![i].result = finish(frames[i].fn, frames[i].args,
                                         locals[frame_of(i)])]
    /\ UNCHANGED <<op, args, out, locals, history, script>>

\* The caller of invocation i takes the result.
Collect(i) ==
    /\ frames[i].pc = "done"
    /\ frames' = [frames EXCEPT ![i] = IdleFrame]
    /\ UNCHANGED <<op, args, out, locals, history, script>>

StepNext ==
    \/ \E i \in Invocations : Start(i)
    \/ \E i \in Invocations : Iterate(i)
    \/ \E i \in Invocations : Sort(i)
    \/ \E i \in Invocations : Finish(i)
    \/ \E i \in Invocations : Collect(i)

\* Several invocations with their statements interleaved in every way.
StepSpec == Init /\ [][StepNext]_vars

---------------------------------------------------------------------------
(* One caller making one call after the other *)

\* The calls the caller chooses from: the six functions, one of them with
\* a code that is not in the table.
SeqCalls ==
    { [fn |-> "calculate_total_weight", args |-> [cargo_items |-> ExampleWeightItems]],
      [fn |-> "calculate_total_volume", args |-> [cargo_items |-> ExampleVolumeItems]],
      [fn |-> "compare_uld_options",
       args |-> [cargo_weight |-> 2500, cargo_volume |-> 90]],
      [fn |-> "validate_weight_constraints",
       args |-> [uld_type |-> AKE, cargo_weight |-> 2000, include_tare |-> TRUE]],
      [fn |-> "calculate_uld_requirements",
       args |-> [total_weight |-> 2500, total_volume |-> 90,
                 uld_type |-> <<"x","y","z">>]],
      [fn |-> "check_dimensional_fit",
       args |-> [cargo_length |-> 147, cargo_width |-> 150,
                 cargo_height |-> 150, uld_type |-> AKE]] }

\* The caller makes a call when the one before has returned.
SeqStart == \E c \in SeqCalls : Enter(1, c)

\* The caller feeds the totals that calculate_total_weight and
\* calculate_total_volume returned into calculate_uld_requirements: the
\* kilograms as they are, the cubic metres shown with two decimals (here in
\* hundredths) as tenths when they are a whole number of tenths.
SeqStartWithTotals ==
    \E j, k \in 1..Len(history) :
        /\ history[j].fn = "calculate_total_weight"
        /\ history[j].result.marker = "Total Weight"
        /\ history[k].fn = "calculate_total_volume"
        /\ history[k].result.marker = "Total Volume"
        /\ history[k].result.total_volume_m3 % 10 = 0
        /\ Enter(1, [fn |-> "calculate_uld_requirements",
                     args |-> [total_weight |-> history[j].result.total_weight,
                               total_volume |->
                                   history[k].result.total_volume_m3 \div 10,
                               uld_type |-> AKE]])

\* The caller takes the result of the call and keeps it.
CollectLogged ==
    /\ frames[1].pc = "done"
    /\ Len(history) < MaxHistory
    /\ history' = Append(history, [fn |-> frames[1].fn, args |-> frames[1].args,
                                   result |-> frames[1].result])
    /\ frames' = [frames EXCEPT ![1] = IdleFrame]
    /\ UNCHANGED <<op, args, out, locals, script>>

SeqNext ==
    \/ SeqStart
    \/ SeqStartWithTotals
    \/ Iterate(1)
    \/ Sort(1)
    \/ Finish(1)
    \/ CollectLogged

SeqSpec == Init /\ [][SeqNext]_vars

---------------------------------------------------------------------------
(* The deployment scripts src/undeploy_uld_agents.py and                   *)
(* src/deploy_uld_agents.py, followed block by block.  A call to AWS or    *)
(* to the file system returns or raises; the action that makes the call    *)
(* chooses which.  A function of a script is an operator that takes the    *)
(* outcomes of the calls it makes and gives [raised, value, calls]:        *)
(* whether an exception left the function, the value it returned, and the  *)
(* calls it made, in order, each with its outcome.                         *)

AGENT_ID == JStr(<<"agent-abc123">>)

\* How a call to AWS or to the file system ends.
CallOutcomes == {"ok", "error"}

\* ... and, for a deletion, the service's answer that the thing is absent.
DeleteOutcomes == {"ok", "absent", "error"}

\* undeploy_agent: the except of lines 73-80 turns every failure of the
\* toolkit into False.  Lines 52-53 build a boto3 Session and read its
\* region without calling AWS; the caller reaches them only after
\* get_ssm_parameter went through, so they are taken not to fail.
undeploy_agent(agent_id, undeploy) ==
    [ raised |-> FALSE,
      value  |-> (undeploy = "ok"),
      calls  |-> << <<"undeploy", undeploy>> >> ]

\* cleanup_ssm_parameters: the client is made outside the try (line 100);
\* the deletion of the one parameter is inside it, and both excepts
\* (lines 117-120) only print.
cleanup_ssm_parameters(client, deletion) ==
    IF client = "error"
    THEN [ raised |-> TRUE, value |-> FALSE,
           calls |-> << <<"client", "error">> >> ]
    ELSE [ raised |-> FALSE, value |-> FALSE,
           calls |-> << <<"client", "ok">>, <<"delete_parameter", deletion>> >> ]

\* cleanup_local_files: the one file is removed when it exists; the except
\* of lines 154-155 only prints.
cleanup_local_files(exists, removal) ==
    [ raised |-> FALSE, value |-> FALSE,
      calls  |-> IF exists THEN << <<"remove", removal>> >>
                 ELSE << <<"remove", "absent">> >> ]

\* cleanup_iam_role: the client is made outside the try (line 174).  An
\* absent inline policy is passed over (lines 191-192); any other failure
\* of delete_role_policy leaves the try before delete_role (lines 201-203).
cleanup_iam_role(client, policy, role) ==
    IF client = "error"
    THEN [ raised |-> TRUE, value |-> FALSE,
           calls |-> << <<"client", "error">> >> ]
    ELSE IF policy = "error"
    THEN [ raised |-> FALSE, value |-> FALSE,
           calls |-> << <<"client", "ok">>, <<"delete_role_policy", policy>> >> ]
    ELSE [ raised |-> FALSE, value |-> FALSE,
           calls |-> << <<"client", "ok">>, <<"delete_role_policy", policy>>,
                        <<"delete_role", role>> >> ]

\* The blocks of undeploy_all_agents, in the order of the text.
undeploy_blocks ==
    <<"retrieve", "undeploy_agent", "cleanup_ssm", "cleanup_local",
      "cleanup_iam", "summary", "done">>

block_after(blocks, block) ==
    blocks[(CHOOSE k \in 1..Len(blocks) : blocks[k] = block) + 1]

\* Not the code: a block that raised sends the run to the summary.
undeploy_next_abort(block, raised) ==
    IF raised THEN "summary" ELSE block_after(undeploy_blocks, block)

\* Each block sits in its own try/except (lines 238-247, 258-262, 265-269,
\* 272-276), or cannot raise (250-255): the run goes on to the next block.
undeploy_next(block, raised) == block_after(undeploy_blocks, block)

logged(block, result) ==
    Append(script.log, [block |-> block, raised |-> result.raised,
                        calls |-> result.calls])

\* Lines 226-236.
UndeployStart ==
    /\ script = IdleScript
    /\ script' = [IdleScript EXCEPT !.name = "undeploy_all_agents",
                                    !.pc = "retrieve",
                                    !.undeploy_success = TRUE,
                                    !.agent_id = JNull]
    /\ UNCHANGED <<op, args, out, frames, locals, history>>

\* Lines 238-247: utils.get_ssm_parameter returns the stored ID or raises.
Retrieve ==
    /\ script.name = "undeploy_all_agents"
    /\ script.pc = "retrieve"
    /\ \E outcome \in CallOutcomes :
        LET result == [raised |-> outcome = "error", value |-> AGENT_ID,
                       calls |-> << <<"get_ssm_parameter", outcome>> >>]
        IN script' =
            [script EXCEPT
                !.agent_id = IF result.raised THEN @ ELSE result.value,
                !.undeploy_success = IF result.raised THEN FALSE ELSE @,
                !.log = logged("retrieve", result),
                !.pc = undeploy_next("retrieve", result.raised)]
    /\ UNCHANGED <<op, args, out, frames, locals, history>>

\* Lines 250-255.
UndeployAgent ==
    /\ script.name = "undeploy_all_agents"
    /\ script.pc = "undeploy_agent"
    /\ IF truthy(script.agent_id)
       THEN \E undeploy \in CallOutcomes :
            LET result == undeploy_agent(script.agent_id, undeploy)
            IN script' =
                [script EXCEPT
                    !.undeploy_success = IF ~result.value THEN FALSE ELSE @,
                    !.log = logged("undeploy_agent", result),
                    !.pc = undeploy_next("undeploy_agent", result.raised)]
       ELSE script' =
                [script EXCEPT !.pc = undeploy_next("undeploy_agent", FALSE)]
    /\ UNCHANGED <<op, args, out, frames, locals, history>>

\* Lines 258-262.
CleanupSsm ==
    /\ script.name = "undeploy_all_agents"
    /\ script.pc = "cleanup_ssm"
    /\ \E client \in CallOutcomes, deletion \in DeleteOutcomes :
        LET result == cleanup_ssm_parameters(client, deletion)
        IN script' =
            [script EXCEPT
                !.undeploy_success = IF result.raised THEN FALSE ELSE @,
                !.log = logged("cleanup_ssm", result),
                !.pc = undeploy_next("cleanup_ssm", result.raised)]
    /\ UNCHANGED <<op, args, out, frames, locals, history>>

\* Lines 265-269.
CleanupLocal ==
    /\ script.name = "undeploy_all_agents"
    /\ script.pc = "cleanup_local"
    /\ \E exists \in BOOLEAN, removal \in CallOutcomes :
        LET result == cleanup_local_files(exists, removal)
        IN script' =
            [script EXCEPT
                !.undeploy_success = IF result.raised THEN FALSE ELSE @,
                !.log = logged("cleanup_local", result),
                !.pc = undeploy_next("cleanup_local", result.raised)]
    /\ UNCHANGED <<op, args, out, frames, locals, history>>

\* Lines 272-276.
CleanupIam ==
    /\ script.name = "undeploy_all_agents"
    /\ script.pc = "cleanup_iam"
    /\ \E client \in CallOutcomes, policy \in DeleteOutcomes,
          role \in DeleteOutcomes :
        LET result == cleanup_iam_role(client, policy, role)
        IN script' =
            [script EXCEPT
                !.undeploy_success = IF result.raised THEN FALSE ELSE @,
                !.log = logged("cleanup_iam", result),
                !.pc = undeploy_next("cleanup_iam", result.raised)]
    /\ UNCHANGED <<op, args, out, frames, locals, history>>

\* Lines 279-305.
UndeploySummary ==
    /\ script.name = "undeploy_all_agents"
    /\ script.pc = "summary"
    /\ script' =
        [script EXCEPT
            !.printed = IF script.undeploy_success THEN "success"
                        ELSE "completed with some errors",
            !.pc = undeploy_next("summary", FALSE)]
    /\ UNCHANGED <<op, args, out, frames, locals, history>>

\* What launch() gave: a result without an agent_id attribute, one whose
\* agent_id is None, one with the agent's ID (lines 102-108).
LaunchResults == {"no agent_id", "agent_id None", "agent_id"}

\* deploy_agent: the session, its region and the account (lines 57-59) are
\* fetched before the try; role creation, configure and launch are inside
\* it, and its except (lines 117-122) returns None.
deploy_agent(session, role, configure, launch, launch_result) ==
    IF session = "error"
    THEN [ raised |-> TRUE, value |-> JNull,
           calls |-> << <<"get_caller_identity", "error">> >> ]
    ELSE IF role = "error"
    THEN [ raised |-> FALSE, value |-> JNull,
           calls |-> << <<"get_caller_identity", "ok">>,
                        <<"create_agentcore_role", "error">> >> ]
    ELSE IF configure = "error"
    THEN [ raised |-> FALSE, value |-> JNull,
           calls |-> << <<"get_caller_identity", "ok">>,
                        <<"create_agentcore_role", "ok">>,
                        <<"configure", "error">> >> ]
    ELSE IF launch = "error"
    THEN [ raised |-> FALSE, value |-> JNull,
           calls |-> << <<"get_caller_identity", "ok">>,
                        <<"create_agentcore_role", "ok">>,
                        <<"configure", "ok">>, <<"launch", "error">> >> ]
    ELSE [ raised |-> FALSE,
           value  |-> IF launch_result = "agent_id" THEN AGENT_ID ELSE JNull,
           calls |-> << <<"get_caller_identity", "ok">>,
                        <<"create_agentcore_role", "ok">>,
                        <<"configure", "ok">>, <<"launch", "ok">> >> ]

\* The blocks of deploy_all_agents once deploy_agent gave an ID.
deploy_blocks == <<"deploy_agent", "store_ssm", "save_file", "summary", "done">>

\* Not the code: a block that raised sends the run to the summary.
deploy_next_abort(block, raised) ==
    IF raised THEN "summary" ELSE block_after(deploy_blocks, block)

\* The store and the save each sit in their own try/except (lines 165-171,
\* 174-181): the run goes on to the next block.
deploy_next(block, raised) == block_after(deploy_blocks, block)

\* Lines 145-156.
DeployStart ==
    /\ script = IdleScript
    /\ script' = [IdleScript EXCEPT !.name = "deploy_all_agents",
                                    !.pc = "deploy_agent",
                                    !.agent_ids = <<>>]
    /\ UNCHANGED <<op, args, out, frames, locals, history>>

\* Lines 158-160 and 182-184.  An exception that leaves deploy_agent
\* leaves deploy_all_agents too and ends the script with status 1
\* (lines 231-235).
DeployAgent ==
    /\ script.name = "deploy_all_agents"
    /\ script.pc = "deploy_agent"
    /\ \E session \in CallOutcomes, role \in CallOutcomes,
          configure \in CallOutcomes, launch \in CallOutcomes,
          launch_result \in LaunchResults :
        LET result ==
                deploy_agent(session, role, configure, launch, launch_result)
        IN script' =
            IF result.raised
            THEN [script EXCEPT !.log = logged("deploy_agent", result),
                                !.printed = "Deployment failed",
                                !.exit = "1",
                                !.pc = "done"]
            ELSE IF truthy(result.value)
            THEN [script EXCEPT !.log = logged("deploy_agent", result),
                                !.agent_id = result.value,
                                !.pc = deploy_next("deploy_agent", FALSE)]
            ELSE [script EXCEPT !.log = logged("deploy_agent", result),
                                !.agent_id = result.value,
                                !.printed = "Failed to deploy",
                                !.exit = "1",
                                !.pc = "done"]
    /\ UNCHANGED <<op, args, out, frames, locals, history>>

\* Lines 161-171.
StoreSsm ==
    /\ script.name = "deploy_all_agents"
    /\ script.pc = "store_ssm"
    /\ \E put \in CallOutcomes :
        LET result == [raised |-> put = "error", value |-> FALSE,
                       calls |-> << <<"put_ssm_parameter", put>> >>]
        IN script' =
            [script EXCEPT
                !.agent_ids = "Uld_Load_Planner_Agent" :> script.agent_id,
                !.log = logged("store_ssm", result),
                !.pc = deploy_next("store_ssm", result.raised)]
    /\ UNCHANGED <<op, args, out, frames, locals, history>>

\* Lines 174-181.
SaveFile ==
    /\ script.name = "deploy_all_agents"
    /\ script.pc = "save_file"
    /\ \E write \in CallOutcomes :
        LET result == [raised |-> write = "error", value |-> FALSE,
                       calls |-> << <<"write", write>> >>]
        IN script' =
            [script EXCEPT
                !.log = logged("save_file", result),
                !.pc = deploy_next("save_file", result.raised)]
    /\ UNCHANGED <<op, args, out, frames, locals, history>>

\* Lines 187-208, then lines 226-227 of the script.
DeploySummary ==
    /\ script.name = "deploy_all_agents"
    /\ script.pc = "summary"
    /\ script' =
        IF script.agent_ids # <<>>
        THEN [script EXCEPT !.printed = "Successfully deployed agents",
                            !.exit = "0",
                            !.pc = deploy_next("summary", FALSE)]
        ELSE [script EXCEPT !.printed = "No agents were successfully deployed",
                            !.exit = "1",
                            !.pc = deploy_next("summary", FALSE)]
    /\ UNCHANGED <<op, args, out, frames, locals, history>>

ScriptNext ==
    \/ UndeployStart
    \/ Retrieve
    \/ UndeployAgent
    \/ CleanupSsm
    \/ CleanupLocal
    \/ CleanupIam
    \/ UndeploySummary
    \/ DeployStart
    \/ DeployAgent
    \/ StoreSsm
    \/ SaveFile
    \/ DeploySummary

ScriptSpec == Init /\ [][ScriptNext]_vars

\* A script is one Python process: unless it has ended, its next block
\* runs, and every call it makes returns or raises.
ScriptFairSpec == ScriptSpec /\ WF_vars(ScriptNext)

---------------------------------------------------------------------------
(* The parameters of the six tools (the def lines 14, 53, 104, 171, 229, 303) *)

Parameters ==
    [ calculate_total_weight      |-> {"cargo_items"},
      calculate_total_volume      |-> {"cargo_items"},
      validate_weight_constraints |-> {"uld_type", "cargo_weight", "include_tare"},
      calculate_uld_requirements  |-> {"total_weight", "total_volume", "uld_type"},
      check_dimensional_fit       |->
          {"cargo_length", "cargo_width", "cargo_height", "uld_type"},
      compare_uld_options         |-> {"cargo_weight", "cargo_volume"} ]

CoreFunctions == DOMAIN Parameters

\* The tools that take a uld_type.
UldTypeFunctions == {f \in CoreFunctions : "uld_type" \in Parameters[f]}

---------------------------------------------------------------------------
(* Properties *)

\* The least whole number of units of size d that hold n (n >= 0, d > 0).
Ceil(n, d) == CHOOSE k \in 0..n : k * d >= n /\ (k = 0 \/ (k - 1) * d < n)

Max2(a, b) == IF a > b THEN a ELSE b

\* The code is a key of the table once upper-cased.
KnownType(table, uld_type) == Str(str_upper(uld_type)) \in Keys(table)

\* C1: each of the six functions returns a text and never raises to its
\* caller, for every input string, every uld_type and every non-negative
\* weight and volume, zero included.
C1_NeverRaises ==
    op \in CoreFunctions => out.kind = "text"

\* C2: for every non-negative cargo_weight and cargo_volume,
\* compare_uld_options returns exactly one option per ULD type of the table
\* (five options), ordered by non-increasing average utilization, so that
\* the recommended option's average utilization is at least every other's.
C2_OneOptionPerTypeSorted ==
    op = "compare_uld_options" =>
        /\ out.kind = "text"
        /\ Len(out.options) = 5
        /\ {out.options[i].type : i \in 1..Len(out.options)}
               = {"AKE", "AAA", "AKN", "AAP", "AMA"}
        /\ \A i, j \in 1..Len(out.options) :
               i < j => FracCmp(out.options[i].avg_util, out.options[j].avg_util) >= 0
        /\ \A i \in 1..Len(out.options) :
               FracCmp(out.best.avg_util, out.options[i].avg_util) >= 0

\* C3: for every known uld_type and every non-negative total_weight and
\* total_volume, calculate_uld_requirements reports ulds_required =
\* max(ceil(total_weight / max_net), ceil(total_volume / volume)), an exact
\* quotient not being rounded up by an extra unit.
C3_RequiredIsMaxOfCeilings ==
    (op = "calculate_uld_requirements"
        /\ KnownType(requirements_uld_specs, args.uld_type)) =>
        LET spec == Lookup(requirements_uld_specs, Str(str_upper(args.uld_type)))
        IN  /\ out.kind = "text"
            /\ out.marker = "ULDs Required"
            /\ out.ulds_required =
                   Max2(Ceil(args.total_weight, spec.max_net),
                        Ceil(args.total_volume, spec.volume))

\* C4: for every known uld_type and cargo_weight, validate_weight_constraints
\* returns VALID exactly when cargo_weight + tare <= max_gross (with tare) or
\* cargo_weight <= max_net (without), and INVALID otherwise; a compared
\* weight equal to the capacity is VALID.
C4_ValidIffWithinCapacity ==
    (op = "validate_weight_constraints" /\ KnownType(validate_uld_specs, args.uld_type)) =>
        LET spec == Lookup(validate_uld_specs, Str(str_upper(args.uld_type)))
            within == IF args.include_tare
                      THEN args.cargo_weight + spec.tare <= spec.max_gross
                      ELSE args.cargo_weight <= spec.max_net
        IN  /\ out.kind = "text"
            /\ out.marker = IF within THEN "VALID" ELSE "INVALID"

\* A cargo weight equal to max_net was validated without the tare.
C4_Witness ==
    /\ op = "validate_weight_constraints"
    /\ out.marker = "VALID"
    /\ ~args.include_tare
    /\ args.cargo_weight = 1503
    /\ out.total_weight = out.max_capacity

\* C5: for every known uld_type, check_dimensional_fit returns FITS exactly
\* when cargo_length <= internal length, cargo_width <= internal width and
\* cargo_height <= internal height + 5; a height of internal height + 5
\* fits, a greater one does not; length and width get no tolerance.
C5_FitsIffWithinDimensions ==
    (op = "check_dimensional_fit" /\ KnownType(uld_dimensions, args.uld_type)) =>
        LET dim == Lookup(uld_dimensions, Str(str_upper(args.uld_type)))
            fits == /\ args.cargo_length <= dim.length
                    /\ args.cargo_width <= dim.width
                    /\ args.cargo_height <= dim.height + 5
        IN  /\ out.kind = "text"
            /\ out.marker = IF fits THEN "FITS" ELSE "DOES NOT FIT"

\* A cargo exactly as long and wide as the container and 5 cm higher fits.
C5_Witness ==
    /\ op = "check_dimensional_fit"
    /\ out.marker = "FITS"
    /\ out.cargo = <<150, 147, 162>>
    /\ out.internal = <<150, 147, 157>>

\* The text of C6 for the functions of F: called with a code that is not in
\* the table, a function of F returns the error text, which names the code
\* as given and the valid codes and holds no figure of a calculation, and
\* the other functions of F return the same text for that code.
UnknownTypeTextIn(F) ==
    (op \in F /\ "uld_type" \in DOMAIN args
        /\ ~KnownType(validate_uld_specs, args.uld_type)
        /\ ~KnownType(requirements_uld_specs, args.uld_type)
        /\ ~KnownType(uld_dimensions, args.uld_type)) =>
        /\ out = [kind |-> "text", marker |-> "ERROR", reason |-> "Unknown ULD type",
                  uld_type |-> Str(args.uld_type),
                  valid_types |-> "AKE, AAA, AKN, AAP, AMA"]
        /\ validate_weight_constraints(args.uld_type, 1400, TRUE) = out
        /\ calculate_uld_requirements(2500, 90, args.uld_type) = out
        /\ check_dimensional_fit(120, 100, 150, args.uld_type) = out

\* C6 as stated: every core function that accepts a uld_type, of which
\* there are four, returns for a code not in the table the same
\* error-prefixed text enumerating the valid codes, with no calculation.
C6_FourFunctionsSameErrorText ==
    /\ UnknownTypeTextIn(UldTypeFunctions)
    /\ op \in UldTypeFunctions => Cardinality(UldTypeFunctions) = 4

\* C6 amended: every core function that accepts a uld_type, of which there
\* are three (validate_weight_constraints, calculate_uld_requirements,
\* check_dimensional_fit; compare_uld_options takes none), returns for a
\* code not in the table the same error-prefixed text enumerating the valid
\* codes, with no calculation.
C6_ThreeFunctionsSameErrorText ==
    /\ UnknownTypeTextIn(UldTypeFunctions)
    /\ op \in CoreFunctions => DOMAIN args = Parameters[op]
    /\ UldTypeFunctions = {"validate_weight_constraints",
                           "calculate_uld_requirements", "check_dimensional_fit"}

\* calculate_uld_requirements was called with a lower-case code that is
\* not in the table and returned the error text.
C6_Witness ==
    /\ op = "calculate_uld_requirements"
    /\ args.uld_type = <<"x","y","z">>
    /\ out.marker = "ERROR"

\* The value an item holds under a key, or the default when it has no
\* such key.
Field(item, key, default) ==
    IF key \in DOMAIN item.v.fields THEN item.v.fields[key].v ELSE default

\* A decoded list whose elements are all objects with numbers, none
\* negative, under the keys they have.
IsItemList(text) ==
    /\ text.t = "list"
    /\ \A i \in 1..Len(text.v) :
        /\ text.v[i].t = "obj"
        /\ \A k \in DOMAIN text.v[i].v.fields :
            /\ text.v[i].v.fields[k].t = "num"
            /\ text.v[i].v.fields[k].v >= 0

\* Sum of weight x quantity over the first n items.
RECURSIVE WeightSum(_, _)
WeightSum(items, n) ==
    IF n = 0 THEN 0
    ELSE WeightSum(items, n - 1)
         + Field(items[n], "weight", 0) * Field(items[n], "quantity", 1)

\* length x width x height x quantity of an item, in cubic centimetres.
ItemCm3(item) ==
    Field(item, "length", 0) * Field(item, "width", 0)
    * Field(item, "height", 0) * Field(item, "quantity", 1)

\* Sum of the volumes of the first n items, in cubic centimetres.
RECURSIVE VolumeSum(_, _)
VolumeSum(items, n) ==
    IF n = 0 THEN 0 ELSE VolumeSum(items, n - 1) + ItemCm3(items[n])

\* C7: for every list of items with non-negative weights and quantities,
\* calculate_total_weight reports total = sum of weight x quantity (weight
\* defaulting to 0, quantity to 1), and the breakdown has one line per item
\* in input order; an empty list gives total 0 and no breakdown line.
C7_TotalWeightIsSum ==
    (op = "calculate_total_weight" /\ IsItemList(args.cargo_items)) =>
        LET items == args.cargo_items.v
        IN  /\ out.kind = "text"
            /\ out.marker = "Total Weight"
            /\ out.total_weight = WeightSum(items, Len(items))
            /\ Len(out.breakdown) = Len(items)
            /\ \A i \in 1..Len(items) :
                out.breakdown[i] =
                    [quantity |-> Field(items[i], "quantity", 1),
                     weight |-> Field(items[i], "weight", 0),
                     item_total |-> Field(items[i], "weight", 0)
                                    * Field(items[i], "quantity", 1)]
            /\ items = <<>> => (out.total_weight = 0 /\ out.breakdown = <<>>)

\* The spec's example: 5 items of 500 kg and 3 of 300 kg total 3400 kg.
C7_Witness ==
    /\ op = "calculate_total_weight"
    /\ IsItemList(args.cargo_items)
    /\ Len(args.cargo_items.v) = 2
    /\ out.total_weight = 3400
    /\ out.breakdown[1] = [quantity |-> 5, weight |-> 500, item_total |-> 2500]
    /\ out.breakdown[2] = [quantity |-> 3, weight |-> 300, item_total |-> 900]

\* C8: for every list of items, calculate_total_volume reports total = (sum
\* of length x width x height x quantity) / 1,000,000, accumulated exactly in
\* cubic centimetres and converted once (dimensions defaulting to 0,
\* quantity to 1), so an item with an absent dimension contributes 0.  The
\* text shows the total with two decimals: the hundredth nearest to it.
C8_TotalVolumeIsSum ==
    (op = "calculate_total_volume" /\ IsItemList(args.cargo_items)) =>
        LET items == args.cargo_items.v
            cm3 == VolumeSum(items, Len(items))
            shown == out.total_volume_m3 * 10000
        IN  /\ out.kind = "text"
            /\ out.marker = "Total Volume"
            /\ out.total_volume_cm3 = cm3
            /\ 2 * (cm3 - shown) <= 10000
            /\ 2 * (shown - cm3) <= 10000
            /\ (\A i \in 1..Len(items) :
                    {"length", "width", "height"} \ DOMAIN items[i].v.fields # {})
               => out.total_volume_cm3 = 0
            /\ Len(out.breakdown) = Len(items)

\* The spec's example: one entry 120 x 100 x 80 with quantity 5 gives 4.80.
C8_Witness ==
    /\ op = "calculate_total_volume"
    /\ IsItemList(args.cargo_items)
    /\ Len(args.cargo_items.v) = 1
    /\ out.breakdown[1].dims = <<120, 100, 80>>
    /\ out.breakdown[1].quantity = 5
    /\ out.total_volume_cm3 = 4800000
    /\ out.total_volume_m3 = 480

\* C9: calculate_uld_requirements reports limiting_factor = "weight"
\* exactly when the rounded weight-based count is strictly greater than the
\* rounded volume-based count, and "volume" in every other case, including
\* when the two counts are equal.
C9_LimitingFactor ==
    (op = "calculate_uld_requirements"
        /\ KnownType(requirements_uld_specs, args.uld_type)) =>
        LET spec == Lookup(requirements_uld_specs, Str(str_upper(args.uld_type)))
            by_weight == Ceil(args.total_weight, spec.max_net)
            by_volume == Ceil(args.total_volume, spec.volume)
        IN  /\ out.kind = "text"
            /\ out.limiting_factor =
                   IF by_weight > by_volume THEN "weight" ELSE "volume"

\* C10: in every validate_weight_constraints result for a known type, a
\* VALID result has remaining capacity = capacity - compared weight >= 0 and
\* utilization = compared weight / capacity x 100 <= 100; an INVALID result
\* has excess = compared weight - capacity > 0; the compared weight is
\* cargo + tare against max_gross, or cargo against max_net.
C10_RemainingUtilizationExcess ==
    (op = "validate_weight_constraints"
        /\ KnownType(validate_uld_specs, args.uld_type)) =>
        LET spec == Lookup(validate_uld_specs, Str(str_upper(args.uld_type)))
            compared == IF args.include_tare
                        THEN args.cargo_weight + spec.tare ELSE args.cargo_weight
            capacity == IF args.include_tare THEN spec.max_gross ELSE spec.max_net
        IN  /\ out.marker \in {"VALID", "INVALID"}
            /\ out.total_weight = compared
            /\ out.max_capacity = capacity
            /\ out.marker = "VALID" =>
                /\ out.remaining = capacity - compared
                /\ out.remaining >= 0
                /\ FracCmp(out.utilization, Frac(compared * 100, capacity)) = 0
                /\ FracCmp(out.utilization, Frac(100, 1)) <= 0
                /\ "excess" \notin DOMAIN out
            /\ out.marker = "INVALID" =>
                /\ out.excess = compared - capacity
                /\ out.excess > 0
                /\ "remaining" \notin DOMAIN out

\* The spec's example: 2000 kg in AKE with the tare is 2085 kg against
\* 1588 kg, INVALID with an excess of 497 kg.
C10_Witness ==
    /\ op = "validate_weight_constraints"
    /\ args = [uld_type |-> <<"A","K","E">>, cargo_weight |-> 2000,
               include_tare |-> TRUE]
    /\ out.marker = "INVALID"
    /\ out.total_weight = 2085
    /\ out.excess = 497

\* C11: check_dimensional_fit checks length and width against fixed axes
\* and never tries a rotation: a cargo whose length and width would fit if
\* swapped (length <= internal width and width <= internal length) but
\* whose width exceeds the internal width is reported DOES NOT FIT, the
\* width line being the failing one.
C11_NoRotation ==
    (op = "check_dimensional_fit" /\ KnownType(uld_dimensions, args.uld_type)) =>
        LET dim == Lookup(uld_dimensions, Str(str_upper(args.uld_type)))
        IN  (/\ args.cargo_length <= dim.width
             /\ args.cargo_width <= dim.length
             /\ args.cargo_width > dim.width) =>
                /\ out.kind = "text"
                /\ out.marker = "DOES NOT FIT"
                /\ ~out.width.ok
                /\ out.width.excess = args.cargo_width - dim.width

\* The spec's example: 147 x 150 in AKE (internal 150 x 147), low enough,
\* is refused for its width alone.
C11_Witness ==
    /\ op = "check_dimensional_fit"
    /\ args.uld_type = <<"A","K","E">>
    /\ args.cargo_length = 147
    /\ args.cargo_width = 150
    /\ out.marker = "DOES NOT FIT"
    /\ out.internal = <<150, 147, 157>>
    /\ out.length.ok
    /\ out.height.ok
    /\ out.width = [ok |-> FALSE, cargo |-> 150, limit |-> 147, excess |-> 3]

\* The string s spells the code, letter by letter, in capitals or small
\* letters.
IsSpellingOf(s, code) ==
    /\ Len(s) = Len(code)
    /\ \A i \in 1..Len(s) :
        \/ s[i] = code[i]
        \/ \E k \in 1..Len(LowerCase) : LowerCase[k] = s[i] /\ UpperCase[k] = code[i]

\* C12: ULD code lookup is case-insensitive: for every known code and every
\* upper/lower-case spelling of it, validate_weight_constraints,
\* calculate_uld_requirements and check_dimensional_fit give exactly what
\* they give for the uppercase code with the same other arguments, and a
\* returned text names the code in its uppercase form.
C12_CaseInsensitiveLookup ==
    \A code \in KnownTypeInputs :
        (op \in UldTypeFunctions /\ IsSpellingOf(args.uld_type, code)) =>
            /\ op = "validate_weight_constraints" =>
                   out = validate_weight_constraints(code, args.cargo_weight,
                                                     args.include_tare)
            /\ op = "calculate_uld_requirements" =>
                   out = calculate_uld_requirements(args.total_weight,
                                                    args.total_volume, code)
            /\ op = "check_dimensional_fit" =>
                   out = check_dimensional_fit(args.cargo_length, args.cargo_width,
                                               args.cargo_height, code)
            /\ out.kind = "text" =>
                   /\ out.marker # "ERROR"
                   /\ out.uld_type_upper = Str(code)

\* calculate_uld_requirements was called with the mixed spelling aKe and
\* sized AKE containers.
C12_Witness ==
    /\ op = "calculate_uld_requirements"
    /\ args.uld_type = <<"a","K","e">>
    /\ args.total_weight = 2500
    /\ out.marker = "ULDs Required"
    /\ out.uld_type_upper = "AKE"
    /\ out.ulds_required = 3

\* The text decodes to a list whose elements are all item records
\* (objects).
IsRecordList(text) ==
    /\ text.t = "list"
    /\ \A i \in 1..Len(text.v) : text.v[i].t = "obj"

\* C13: when the input of calculate_total_weight or calculate_total_volume
\* is not valid structured data (undecodable text, a decoded value that is
\* not a list, or a list with an element that is not an item record), the
\* function returns an error-prefixed text and no total at all, not even
\* the partial total of the items before the bad element.
C13_InvalidInputGivesErrorText ==
    (op \in {"calculate_total_weight", "calculate_total_volume"}
        /\ ~IsRecordList(args.cargo_items)) =>
        /\ out.kind = "text"
        /\ out.marker = IF op = "calculate_total_weight"
                        THEN "Error calculating weight"
                        ELSE "Error calculating volume"
        /\ DOMAIN out = {"kind", "marker", "exception"}

\* The place of a code in the table of compare_uld_options.
TableIndex(code) ==
    CHOOSE i \in 1..Len(compare_uld_specs) : compare_uld_specs[i].code = code

\* The place of a code in the returned option list.
OptionIndex(options, code) ==
    CHOOSE i \in 1..Len(options) : options[i].type = code

\* C14: when two ULD types have equal average utilization,
\* compare_uld_options lists them in table declaration order (AKE, AAA, AKN,
\* AAP, AMA); for cargo_weight = 0 and any cargo_volume > 0, AAA and AAP
\* (same volume 7.2) tie and AAA is listed before AAP.
C14_TiesInTableOrder ==
    (op = "compare_uld_options" /\ out.kind = "text") =>
        /\ \A i, j \in 1..Len(out.options) :
               (i < j /\ FracCmp(out.options[i].avg_util,
                                  out.options[j].avg_util) = 0)
                   => TableIndex(out.options[i].type) < TableIndex(out.options[j].type)
        /\ (args.cargo_weight = 0 /\ args.cargo_volume > 0) =>
               LET aaa == OptionIndex(out.options, "AAA")
                   aap == OptionIndex(out.options, "AAP")
               IN  /\ FracCmp(out.options[aaa].avg_util,
                              out.options[aap].avg_util) = 0
                   /\ aaa < aap

\* No weight and 7.2 cubic metres: AAA and AAP both at 50 %, AAA listed
\* right before AAP although AKN stands between the two in the table.
C14_Witness ==
    /\ op = "compare_uld_options"
    /\ args = [cargo_weight |-> 0, cargo_volume |-> 72]
    /\ out.kind = "text"
    /\ \E i \in 1..4 :
        /\ out.options[i].type = "AAA"
        /\ out.options[i + 1].type = "AAP"
        /\ FracCmp(out.options[i].avg_util, Frac(50, 1)) = 0
        /\ FracCmp(out.options[i + 1].avg_util, Frac(50, 1)) = 0

\* C15: for every ULD type T and every cargo weight and volume that are not
\* both zero, the quantity, weight utilization and volume utilization that
\* compare_uld_options reports for T equal the ulds_required and the two
\* utilizations that calculate_uld_requirements reports for the same
\* weight, volume and T.
C15_OptionEqualsRequirements ==
    (op = "compare_uld_options"
        /\ ~(args.cargo_weight = 0 /\ args.cargo_volume = 0)) =>
        /\ out.kind = "text"
        /\ \A T \in KnownTypeInputs :
            LET sized == calculate_uld_requirements(args.cargo_weight,
                                                    args.cargo_volume, T)
            IN  /\ sized.kind = "text"
                /\ sized.marker = "ULDs Required"
                /\ \E i \in 1..Len(out.options) : out.options[i].type = Str(T)
                /\ LET option == out.options[OptionIndex(out.options, Str(T))]
                   IN  /\ option.quantity = sized.ulds_required
                       /\ option.name = sized.name
                       /\ FracCmp(option.weight_util, sized.weight_utilization) = 0
                       /\ FracCmp(option.volume_util, sized.volume_utilization) = 0

\* The spec's example, 2500 kg and 9.0 cubic metres: the AKE option is the
\* 3 containers at 85.7 % of volume that calculate_uld_requirements
\* reports, and the AAP option is the 2 containers it reports.
C15_Witness ==
    /\ op = "compare_uld_options"
    /\ args = [cargo_weight |-> 2500, cargo_volume |-> 90]
    /\ out.kind = "text"
    /\ out.options[OptionIndex(out.options, "AKE")].quantity = 3
    /\ FracCmp(out.options[OptionIndex(out.options, "AKE")].volume_util,
               Frac(9000, 105)) = 0
    /\ calculate_uld_requirements(2500, 90, AKE).ulds_required = 3
    /\ out.options[OptionIndex(out.options, "AAP")].quantity = 2
    /\ calculate_uld_requirements(2500, 90, AAP).ulds_required = 2

\* C19: compare_uld_options(2500, 9.0) recommends 2 x AAA (LD7) as the
\* option with the best utilization, as the example of the docstring
\* (lines 316 to 319) states.
C19_DocstringExample ==
    (op = "compare_uld_options"
        /\ args = [cargo_weight |-> 2500, cargo_volume |-> 90]) =>
        /\ out.kind = "text"
        /\ out.best.type = "AAA"
        /\ out.best.name = "LD7"
        /\ out.best.quantity = 2

\* A text that is there and not empty.
NonEmptyText(x) == x.t = "str" /\ x.v # <<>>

\* C20: invoke fails with an error, without calling the orchestrator,
\* whenever the payload has neither a non-empty inputText nor a non-empty
\* prompt; a non-empty inputText is the query even if a prompt is there
\* too (and the prompt is the query when there is no non-empty inputText);
\* a successful call returns a result together with a session_id.
C20_InvokeQueryAndFailure ==
    op = "invoke" =>
        LET inputText == payload_get(args.payload, "inputText", Absent)
            prompt == payload_get(args.payload, "prompt", Absent)
        IN  /\ (~NonEmptyText(inputText) /\ ~NonEmptyText(prompt)) =>
                   /\ out.kind = "raise"
                   /\ out.exception = "Exception"
                   /\ out.orchestrator_queries = <<>>
            /\ NonEmptyText(inputText) => out.orchestrator_queries = <<inputText>>
            /\ (~NonEmptyText(inputText) /\ NonEmptyText(prompt)) =>
                   out.orchestrator_queries = <<prompt>>
            /\ out.kind = "return" =>
                   /\ DOMAIN out.value = {"result", "session_id"}
                   /\ out.value.result.query = out.orchestrator_queries[1]
                   /\ out.value.session_id =
                          payload_get(args.payload, "session_id", DEFAULT_SESSION)

\* A payload with both keys filled: the orchestrator got the inputText and
\* the call returned its answer with the session of the payload.
C20_Witness ==
    /\ op = "invoke"
    /\ "inputText" \in DOMAIN args.payload
    /\ "prompt" \in DOMAIN args.payload
    /\ args.payload["inputText"] = JStr(<<"plan A">>)
    /\ args.payload["prompt"] = JStr(<<"plan B">>)
    /\ out.kind = "return"
    /\ out.orchestrator_queries = <<JStr(<<"plan A">>)>>
    /\ out.value.session_id = JStr(<<"session-123">>)

\* Every invocation that has returned, returned what its function returns
\* for its arguments when called alone.
ReturnedAsAlone ==
    \A i \in Invocations :
        frames[i].pc = "done" => frames[i].result = Alone(frames[i].fn, frames[i].args)

\* A step of an invocation leaves the frame and the locals of every other
\* invocation as they were.
OwnFrameOnly ==
    \A i \in Invocations :
        (Start(i) \/ Iterate(i) \/ Sort(i) \/ Finish(i) \/ Collect(i)) =>
            \A j \in Invocations \ {i} :
                frames'[j] = frames[j] /\ locals'[j] = locals[j]

\* C17: when several invocations of the core functions run concurrently
\* with their steps interleaved in any way, each invocation returns the
\* same result it returns when run alone: no invocation reads or writes
\* data that another invocation writes.
C17_InterleavedAsAlone == []ReturnedAsAlone /\ [][OwnFrameOnly]_vars

\* compare_uld_options(2500, 9.0) has returned its five options while a
\* calculate_total_weight, entered and one item into its list of two, is
\* still running.
C17_Witness ==
    /\ frames[1].pc = "done"
    /\ frames[1].fn = "compare_uld_options"
    /\ frames[1].args = [cargo_weight |-> 2500, cargo_volume |-> 90]
    /\ frames[1].result.kind = "text"
    /\ Len(frames[1].result.options) = 5
    /\ frames[2].pc = "loop"
    /\ frames[2].fn = "calculate_total_weight"
    /\ locals[2].k = 2
    /\ locals[2].total = 2500
    /\ Len(locals[1].list) = 5

\* C18: no core function changes the ULD specification data: in every
\* call, whether it succeeds, reports a constraint violation or returns an
\* error, every ULD record (codes, names, weights, dimensions, volumes)
\* stays as the function's table literal has it (the two aggregation
\* functions hold no table); the sort of compare_uld_options reorders only
\* the option list of the call.
C18_TableUnchanged ==
    \A i \in Invocations :
        (frames[i].pc # "idle" /\ TableOf(frames[i].fn) # <<>>) =>
            /\ locals[i].table = TableOf(frames[i].fn)
            /\ (frames[i].fn = "compare_uld_options"
                    /\ frames[i].pc \in {"sorted", "done"}
                    /\ frames[i].result # [kind |-> "raise",
                                           exception |-> "ZeroDivisionError"]) =>
                   /\ locals[i].list = sort_options(
                          compare_loop(1, <<>>, frames[i].args.cargo_weight,
                                       frames[i].args.cargo_volume).options)
                   /\ [j \in 1..Len(locals[i].table) |-> locals[i].table[j].code]
                          = <<"AKE", "AAA", "AKN", "AAP", "AMA">>

\* compare_uld_options(2500, 9.0) has sorted its options into the order
\* AKE, AKN, AMA, AAP, AAA and its table still reads AKE, AAA, AKN, AAP, AMA.
C18_Witness ==
    /\ frames[1].pc = "done"
    /\ frames[1].fn = "compare_uld_options"
    /\ frames[1].args = [cargo_weight |-> 2500, cargo_volume |-> 90]
    /\ [j \in 1..Len(locals[1].list) |-> locals[1].list[j].type]
           = <<"AKE", "AKN", "AMA", "AAP", "AAA">>
    /\ locals[1].table = compare_uld_specs
    /\ frames[2].pc = "done"
    /\ frames[2].fn = "validate_weight_constraints"
    /\ frames[2].result.marker = "INVALID"

\* C16: after any sequence of calls to the six core functions, in any
\* order, a call's result depends only on its own arguments: each call that
\* has returned gave what its function gives for these arguments on its
\* own, so a call repeated with the same arguments (the same unknown ULD
\* code included) gave an identical result, and calculate_uld_requirements
\* fed the totals of the aggregation functions gave the same required count
\* whatever calls were made before.
C16_ResultDependsOnArgumentsOnly ==
    /\ ReturnedAsAlone
    /\ \A j \in 1..Len(history) :
        /\ history[j].result = Alone(history[j].fn, history[j].args)
        /\ \A k \in 1..Len(history) :
            (history[j].fn = history[k].fn /\ history[j].args = history[k].args)
                => history[j].result = history[k].result
        /\ \A i \in Invocations :
            (frames[i].pc = "done" /\ frames[i].fn = history[j].fn
                /\ frames[i].args = history[j].args)
                => frames[i].result = history[j].result

\* The totals 3400 kg and 4.80 cubic metres came back, were fed into
\* calculate_uld_requirements, which asked for 3 AKE; the same call, made
\* once more, has asked for 3 AKE again.
C16_Witness ==
    /\ Len(history) = 3
    /\ history[1].fn = "calculate_total_weight"
    /\ history[1].result.total_weight = 3400
    /\ history[2].fn = "calculate_total_volume"
    /\ history[2].result.total_volume_m3 = 480
    /\ history[3].fn = "calculate_uld_requirements"
    /\ history[3].args = [total_weight |-> 3400, total_volume |-> 48, uld_type |-> AKE]
    /\ history[3].result.ulds_required = 3
    /\ frames[1].pc = "done"
    /\ frames[1].fn = "calculate_uld_requirements"
    /\ frames[1].args = history[3].args
    /\ frames[1].result = history[3].result

\* C21: a session identifier that a client supplies when invoking the
\* deployed agent (invoke_agentcore_agent with session_id, or the
\* integration test's per-case session) is the session identifier the
\* entrypoint uses and returns; "default-session" is used only when the
\* client supplied none.
C21_ClientSessionIsUsed ==
    (op \in {"invoke_agentcore_agent", "integration_test_case"}
        /\ out.kind = "return") =>
        /\ NonEmptyText(args.session_id) => out.value.session_id = args.session_id
        /\ out.value.session_id = DEFAULT_SESSION => ~NonEmptyText(args.session_id)

\* The blocks of a script that called out, in the order they ran.
BlocksRun == [k \in 1..Len(script.log) |-> script.log[k].block]

IsCleanup(block) == block \in {"cleanup_ssm", "cleanup_local", "cleanup_iam"}

CleanupsRun == SelectSeq(BlocksRun, IsCleanup)

CleanupOrder == <<"cleanup_ssm", "cleanup_local", "cleanup_iam">>

\* The entries of the log for one block.
Logged(block) == {k \in 1..Len(script.log) : script.log[k].block = block}

C23_DeletionFailureRaises ==
    \A k \in Logged("cleanup_ssm") :
        LET e == script.log[k]
        IN /\ <<"delete_parameter", "error">> \in
                    {e.calls[j] : j \in 1..Len(e.calls)} => e.raised
           /\ <<"delete_parameter", "absent">> \in
                    {e.calls[j] : j \in 1..Len(e.calls)} => ~e.raised

\* The calls a logged block made, each with its outcome.
CallsOf(e) == {e.calls[j] : j \in 1..Len(e.calls)}

Failed(e) == e.raised \/ \E c \in CallsOf(e) : c[2] = "error"

\* C24: deploy_all_agents stores the agent ID in SSM and saves it to the
\* local file only after deploy_agent returned an ID; when deploy_agent
\* fails at any step or returns no ID the script ends with status 1 and
\* nothing was stored or saved; when the store in SSM fails the file is
\* still written and the deployment is still reported as successful.
C24_RecordedOnlyAfterDeployed ==
    script.name = "deploy_all_agents" =>
        /\ \A k \in Logged("store_ssm") \cup Logged("save_file") :
                /\ \E d \in Logged("deploy_agent") :
                        d < k /\ ~Failed(script.log[d])
                /\ NonEmptyText(script.agent_id)
        /\ Logged("save_file") # {} => Logged("store_ssm") # {}
        /\ (script.pc = "done"
                /\ \E d \in Logged("deploy_agent") :
                        Failed(script.log[d]) \/ ~NonEmptyText(script.agent_id)) =>
                /\ script.exit = "1"
                /\ Logged("store_ssm") \cup Logged("save_file") = {}
        /\ (script.pc = "done"
                /\ \E k \in Logged("store_ssm") : script.log[k].raised) =>
                /\ Logged("save_file") # {}
                /\ script.printed = "Successfully deployed agents"
                /\ script.exit = "0"

\* A deployment whose store in SSM failed, whose file was written, and
\* which ended reported as successful.
C24_Witness ==
    /\ script.name = "deploy_all_agents"
    /\ script.pc = "done"
    /\ \E k \in Logged("store_ssm") : script.log[k].raised
    /\ \E k \in Logged("save_file") : ~Failed(script.log[k])
    /\ script.exit = "0"

\* C25: undeploy_all_agents prints the success summary only if the agent ID
\* was retrieved, the agent was undeployed and no deletion of the three
\* cleanups failed; in every other run it prints "completed with some
\* errors".
C25_SuccessOnlyIfNothingFailed ==
    (script.name = "undeploy_all_agents" /\ script.printed # "none") =>
        (script.printed = "success" <=>
            /\ \E k \in Logged("retrieve") : ~Failed(script.log[k])
            /\ \E k \in Logged("undeploy_agent") : ~Failed(script.log[k])
            /\ \A k \in 1..Len(script.log) : ~Failed(script.log[k]))

\* What a text of validate_weight_constraints says of the verdict: the
\* marker, and the remaining capacity or the excess.
Verdict(text) ==
    IF text.marker = "VALID" THEN <<"VALID", text.remaining>>
    ELSE IF text.marker = "INVALID" THEN <<"INVALID", text.excess>>
    ELSE <<text.marker>>

InPercent(f) == FracCmp(f, Frac(0, 1)) >= 0 /\ FracCmp(f, Frac(100, 1)) <= 0

Rejected(text) ==
    text.kind = "text" /\ text.marker = "ERROR"
        /\ "reason" \in DOMAIN text /\ text.reason = "Unknown ULD type"

CodeSet == {"AKE", "AAA", "AKN", "AAP", "AMA"}

\* C28: the tables of validate_weight_constraints,
\* calculate_uld_requirements, check_dimensional_fit and compare_uld_options
\* have the same codes AKE, AAA, AKN, AAP, AMA and agree on the name, the
\* max_net and the volume wherever two of them hold it; so a code that one
\* function accepts is accepted by every function that takes a code.
C28_TablesAgree ==
    /\ Keys(validate_uld_specs) = CodeSet
    /\ Keys(requirements_uld_specs) = CodeSet
    /\ Keys(uld_dimensions) = CodeSet
    /\ Keys(compare_uld_specs) = CodeSet
    /\ \A code \in CodeSet :
        LET v == Lookup(validate_uld_specs, code)
            r == Lookup(requirements_uld_specs, code)
            d == Lookup(uld_dimensions, code)
            c == Lookup(compare_uld_specs, code)
        IN  /\ v.name = r.name /\ r.name = d.name /\ d.name = c.name
            /\ v.max_net = r.max_net /\ r.max_net = c.max_net
            /\ r.volume = c.volume
    /\ op \in UldTypeFunctions =>
        /\ Rejected(out) <=>
                Rejected(validate_weight_constraints(args.uld_type, 0, FALSE))
        /\ Rejected(out) <=>
                Rejected(calculate_uld_requirements(1, 1, args.uld_type))
        /\ Rejected(out) <=>
                Rejected(check_dimensional_fit(0, 0, 0, args.uld_type))

\* A fit check of a code in small letters that the validator and the
\* sizing accept under the same name.
C28_Witness ==
    /\ op = "check_dimensional_fit"
    /\ args.uld_type = <<"a", "m", "a">>
    /\ out.marker = "FITS"
    /\ out.name = "LD9"
    /\ validate_weight_constraints(args.uld_type, 0, FALSE).name = out.name
    /\ calculate_uld_requirements(1, 1, args.uld_type).name = out.name

\* C29: a cargo that check_dimensional_fit reports as FITS for AKE is
\* reported as FITS for AAA, AKN, AAP and AMA as well.
C29_FitsInAKEFitsInAll ==
    (op = "check_dimensional_fit"
        /\ Str(str_upper(args.uld_type)) = "AKE"
        /\ out.marker = "FITS") =>
        \A T \in KnownTypeInputs :
            check_dimensional_fit(args.cargo_length, args.cargo_width,
                                  args.cargo_height, T).marker = "FITS"

\* A cargo that fills AKE to the centimetre, overhang included.
C29_Witness ==
    /\ op = "check_dimensional_fit"
    /\ args.uld_type = AKE
    /\ out.marker = "FITS"
    /\ out.length_clearance = 0
    /\ out.width_clearance = 0
    /\ out.height_clearance = 0
    /\ check_dimensional_fit(args.cargo_length, args.cargo_width,
                             args.cargo_height, AMA).width_clearance > 0

\* The weight-based count of a sizing: int(x) + (1 if x % 1 > 0 else 0) of
\* the quotient it reports as "By weight".
WeightCount(sized) == rounded_count(sized.ulds_by_weight)

\* C30: for every known type T and every non-negative weight w,
\* validate_weight_constraints(T, w, include_tare = false) is VALID exactly
\* when the weight-based count of calculate_uld_requirements for w and T is
\* at most 1.
C30_ValidIffOneContainerByWeight ==
    /\ (op = "validate_weight_constraints"
            /\ KnownType(validate_uld_specs, args.uld_type)
            /\ ~args.include_tare
            /\ args.cargo_weight >= 0) =>
            \A total_volume \in {1, 90} :
                LET sized == calculate_uld_requirements(args.cargo_weight,
                                                        total_volume, args.uld_type)
                IN  /\ sized.kind = "text"
                    /\ sized.marker = "ULDs Required"
                    /\ out.marker = "VALID" <=> WeightCount(sized) <= 1
    /\ (op = "calculate_uld_requirements"
            /\ out.kind = "text"
            /\ out.marker = "ULDs Required") =>
            (WeightCount(out) <= 1 <=>
                validate_weight_constraints(args.uld_type, args.total_weight,
                                            FALSE).marker = "VALID")

\* One kilogram over the net capacity of AAP: INVALID, and two containers
\* by weight.
C30_Witness ==
    /\ op = "validate_weight_constraints"
    /\ Str(str_upper(args.uld_type)) = "AAP"
    /\ ~args.include_tare
    /\ out.marker = "INVALID"
    /\ out.excess = 1
    /\ WeightCount(calculate_uld_requirements(args.cargo_weight, 1,
                                              args.uld_type)) = 2

====
